---- MODULE Spec2Model ----
(***************************************************************************)
(* xml-to-postgres (src/src/main.rs): the configuration-driven streaming   *)
(* transformer.  Strings are sequences of one-character strings, so that   *)
(* prefix tests, lengths, escaping and concatenation behave as they do on  *)
(* Rust Strings.  A table is addressed by the sequence of column indices   *)
(* that leads to it from the main table (<<>> is the main table).          *)
(***************************************************************************)
EXTENDS Integers, Sequences, FiniteSets, TLC

VARIABLES
    cfg,       \* the configuration: settings and the table tree built by add_table
    xml,       \* the XML document on the reader's input (a tree of nodes)
    pos,       \* index of the next event the reader returns
    state,     \* struct State
    tabs,      \* the mutable cells of every Table (values, lastid, serial, buf, domains)
    deferred,  \* main's Vec of deferred events
    fatal      \* "" while running; the message once fatalerr! has ended the process

vars == <<cfg, xml, pos, state, tabs, deferred, fatal>>

(***************************************************************************)
(* Strings                                                                 *)
(***************************************************************************)
None == <<>>
Some(x) == <<x>>
IsSome(o) == o # <<>>
Unwrap(o) == o[1]

StartsWith(s, p) == Len(p) <= Len(s) /\ SubSeq(s, 1, Len(p)) = p
EndsWithChar(s, c) == s # <<>> /\ s[Len(s)] = c
Contains(s, c) == \E i \in 1..Len(s) : s[i] = c
Pop(s) == SubSeq(s, 1, Len(s) - 1)
Last(s) == s[Len(s)]

\* str::rfind(ch): the index (from 1) of the last occurrence, 0 when there is none
RFind(s, c) ==
    IF Contains(s, c) THEN CHOOSE i \in 1..Len(s) : s[i] = c /\ \A j \in (i+1)..Len(s) : s[j] # c
    ELSE 0

IsInfix(s, p) == \E i \in 0..(Len(s) - Len(p)) : SubSeq(s, i + 1, i + Len(p)) = p

RECURSIVE Concat(_)
Concat(ss) == IF ss = <<>> THEN <<>> ELSE Head(ss) \o Concat(Tail(ss))

RECURSIVE JoinWith(_, _)
JoinWith(ss, sep) ==
    IF ss = <<>> THEN <<>>
    ELSE IF Len(ss) = 1 THEN ss[1]
    ELSE ss[1] \o sep \o JoinWith(Tail(ss), sep)

Digits == <<"0", "1", "2", "3", "4", "5", "6", "7", "8", "9">>

\* u32/u64 to_string(), format!("{}", n)
RECURSIVE to_string(_)
to_string(n) == IF n < 10 THEN <<Digits[n + 1]>> ELSE to_string(n \div 10) \o <<Digits[(n % 10) + 1]>>

\* str::replace / cow_replace of one character by a string, left to right
RECURSIVE cow_replace(_, _, _)
cow_replace(s, from, to) ==
    IF s = <<>> THEN <<>>
    ELSE (IF Head(s) = from THEN to ELSE <<Head(s)>>) \o cow_replace(Tail(s), from, to)

(***************************************************************************)
(* The XML reader (quick_xml, configured at main.rs 538-541)               *)
(***************************************************************************)
Elem(tag, attrs, kids) == [k |-> "E", tag |-> tag, attrs |-> attrs, text |-> <<>>, kids |-> kids]
TextNode(t) == [k |-> "T", tag |-> <<>>, attrs |-> <<>>, text |-> t, kids |-> <<>>]
Attr(key, value) == [key |-> key, value |-> value]

EvStart(tag, attrs) == [type |-> "Start", name |-> tag, attrs |-> attrs, text |-> <<>>]
EvText(t) == [type |-> "Text", name |-> <<>>, attrs |-> <<>>, text |-> t]
EvEnd(tag) == [type |-> "End", name |-> tag, attrs |-> <<>>, text |-> <<>>]
EvEof == [type |-> "Eof", name |-> <<>>, attrs |-> <<>>, text |-> <<>>]

IsWhitespace(c) == c \in {" ", "\t", "\r", "\n"}

RECURSIVE TrimStart(_)
TrimStart(s) == IF s # <<>> /\ IsWhitespace(Head(s)) THEN TrimStart(Tail(s)) ELSE s

RECURSIVE TrimEnd(_)
TrimEnd(s) == IF s # <<>> /\ IsWhitespace(Last(s)) THEN TrimEnd(Pop(s)) ELSE s

\* reader.config_mut().trim_text(true): whitespace is removed from both ends of
\* a text node, and a text node that is then empty yields no event
trim_text(s) == TrimEnd(TrimStart(s))

\* The events of a node; expand_empty_elements = true, so every element,
\* also an empty one, yields a Start and an End.
RECURSIVE Events(_)
Events(node) ==
    IF node.k = "T"
    THEN (IF trim_text(node.text) = <<>> THEN <<>> ELSE <<EvText(trim_text(node.text))>>)
    ELSE <<EvStart(node.tag, node.attrs)>>
         \o Concat([i \in 1..Len(node.kids) |-> Events(node.kids[i])])
         \o <<EvEnd(node.tag)>>

\* state.reader.read_event_into: the document's events, then Eof
read_events(doc) == Events(doc) \o <<EvEof>>

(***************************************************************************)
(* Configuration: the YAML column entries and the table tree               *)
(***************************************************************************)
\* A 'cols' entry with every key absent (Yaml BadValue)
YCol ==
    [name |-> "", path |-> None, seri |-> FALSE, type |-> None, attr |-> None,
     conv |-> None, incl |-> None, excl |-> None, find |-> None, repl |-> None,
     aggr |-> None, trim |-> FALSE, hide |-> FALSE, bbox |-> None, mult |-> FALSE,
     cols |-> None, file |-> None, norm |-> None]

\* Column { ..Default::default() }
DefaultColumn ==
    [name |-> "", path |-> <<>>, serial |-> FALSE, datatype |-> "", attr |-> None,
     hide |-> FALSE, include |-> None, exclude |-> None, find |-> None, replace |-> None,
     trim |-> FALSE, convert |-> None, aggr |-> None, subtable |-> None, domain |-> None,
     bbox |-> None, multitype |-> FALSE, err |-> ""]

\* The regex crate, for the patterns the configurations here use: an anchored
\* literal ^lit$ and an unanchored literal.
ReExact(lit) == [kind |-> "exact", lit |-> lit]
ReInfix(lit) == [kind |-> "infix", lit |-> lit]
is_match(re, s) == IF re.kind = "exact" THEN s = re.lit ELSE IsInfix(s, re.lit)

FirstErr(errs) ==
    IF \E i \in 1..Len(errs) : errs[i] # ""
    THEN errs[CHOOSE i \in 1..Len(errs) : errs[i] # "" /\ \A j \in 1..(i-1) : errs[j] = ""]
    ELSE ""

\* Table::new, lines 86-88: the table's own path with a leading slash
\* inserted and a trailing slash removed
TablePath(path) ==
    LET p1 == IF path # <<>> /\ Head(path) # "/" THEN <<"/">> \o path ELSE path
    IN  IF EndsWithChar(p1, "/") THEN Pop(p1) ELSE p1

\* add_table, lines 295-302: a column's absolute path
ColumnPath(tablepath, col) ==
    LET colpath == IF col.seri THEN <<"/">> ELSE Unwrap(col.path)
        p1 == IF colpath # <<>> /\ Head(colpath) # "/" THEN tablepath \o <<"/">> ELSE tablepath
        p2 == p1 \o colpath
    IN  IF EndsWithChar(p2, "/") THEN Pop(p2) ELSE p2

\* add_table, lines 315-320
Relation(col) ==
    IF col.file = None /\ col.norm = None THEN "Default"
    ELSE IF col.norm = None THEN "OneToMany"
    ELSE IF col.file = None THEN "ManyToOne"
    ELSE "ManyToMany"

\* lines 310 and 383: the datatype a cols entry names, "text" by default
TypeOf(col) == IF IsSome(col.type) THEN Unwrap(col.type) ELSE "text"

\* lines 380-392: the columns pushed to the table of a domain that has a file
DomainColumns(col, hassub) ==
    IF hassub /\ col.cols # None
    THEN [i \in 1..Len(Unwrap(col.cols)) |->
             [DefaultColumn EXCEPT !.name = Unwrap(col.cols)[i].name,
                                   !.datatype = TypeOf(Unwrap(col.cols)[i])]]
    ELSE << [DefaultColumn EXCEPT !.name = "id", !.datatype = "integer"],
            [DefaultColumn EXCEPT !.name = col.name, !.datatype = TypeOf(col)] >>

\* Domain::new, lines 129-135, and the file chosen at lines 374-378; name,
\* columns and cardinality are those of the domain's table
NewDomain(col, hassub) ==
    LET file == IF hassub /\ col.file = None THEN None ELSE col.norm
    IN  [file |-> file, cardinality |-> IF IsSome(file) THEN "ManyToOne" ELSE "None",
         name |-> col.name,
         columns |-> IF IsSome(file) THEN DomainColumns(col, hassub) ELSE <<>>]

\* A list of conversions that also accepts the value "upper"
ConvValues_WithUpper == {"xml-to-text", "gml-to-ewkb", "concat-text", "upper"}
ConvValues == {"xml-to-text", "gml-to-ewkb", "concat-text"}
AggrValues == {"first", "last", "append"}

RECURSIVE add_table(_, _, _, _, _)

\* add_table, lines 321-363: the subtable of a column, if it has one; taken
\* says that the filters moved to the implicit single column (lines 334-338)
Subtable(col, path, cardinality, firsterr) ==
    IF col.cols = None
    THEN IF cardinality \in {"OneToMany", "ManyToMany"}
         THEN [table |-> Some([add_table(col.name, path, col.file, <<>>, cardinality) EXCEPT
                               !.columns = << [DefaultColumn EXCEPT
                                   !.name = col.name, !.path = path,
                                   !.datatype = IF cardinality = "ManyToMany" THEN "integer"
                                                ELSE IF IsSome(col.type) THEN Unwrap(col.type) ELSE "text",
                                   !.include = col.incl, !.exclude = col.excl] >>]),
               err |-> firsterr, taken |-> TRUE]
         ELSE [table |-> None, err |-> "", taken |-> FALSE]
    ELSE IF cardinality = "ManyToOne"
         THEN [table |-> Some(add_table(col.name, path, col.norm, Unwrap(col.cols), cardinality)),
               err |-> "", taken |-> FALSE]
         ELSE IF col.file = None
              THEN [table |-> None, err |-> "subtable has no 'file' entry", taken |-> FALSE]
              ELSE [table |-> Some(add_table(col.name, path, col.file, Unwrap(col.cols), cardinality)),
                    err |-> firsterr, taken |-> FALSE]

\* add_table, lines 364-436: the Column pushed for a colspec entry, given its
\* path and its subtable
NewColumn(col, path, sub) ==
    LET include == IF sub.taken THEN None ELSE col.incl
        exclude == IF sub.taken THEN None ELSE col.excl
        \* lines 371-402
        normerr == IF col.norm = Some("true")
                   THEN "'norm' option now takes a file path instead of a boolean" ELSE ""
        domain == IF IsSome(col.norm) THEN Some(NewDomain(col, IsSome(sub.table))) ELSE None
        subtable == IF IsSome(sub.table) /\ IsSome(domain)
                    THEN Some([Unwrap(sub.table) EXCEPT !.domain = domain])
                    ELSE sub.table
        suberr == IF IsSome(sub.table) THEN Unwrap(sub.table).err ELSE ""
        coldomain == IF IsSome(sub.table) THEN None ELSE domain
        datatype == IF IsSome(col.norm) THEN "integer"
                    ELSE IF IsSome(col.type) THEN Unwrap(col.type)
                    ELSE IF col.conv = Some("gml-to-ewkb") THEN "geometry"
                    ELSE "text"
        \* lines 406-432
        converr == IF IsSome(col.conv) /\ Unwrap(col.conv) \notin ConvValues
                   THEN "option 'conv' contains invalid value" ELSE ""
        aggrerr == IF IsSome(col.aggr) /\ Unwrap(col.aggr) \notin AggrValues
                   THEN "option 'aggr' contains invalid value" ELSE ""
        filterr == IF (IsSome(include) \/ IsSome(exclude)) /\ IsSome(col.conv)
                   THEN "filtering (incl/excl) and 'conv' cannot be used together on a single column"
                   ELSE ""
    IN  [name |-> col.name, path |-> path, serial |-> col.seri, datatype |-> datatype,
         attr |-> col.attr, hide |-> col.hide, include |-> include, exclude |-> exclude,
         find |-> col.find, replace |-> col.repl, trim |-> col.trim, convert |-> col.conv,
         aggr |-> col.aggr, subtable |-> subtable, domain |-> coldomain, bbox |-> col.bbox,
         multitype |-> col.mult,
         err |-> FirstErr(<<sub.err, suberr, normerr, converr, aggrerr, filterr>>)]

\* add_table, lines 293-439: one iteration of the loop over colspec;
\* first is table.columns.is_empty()
add_column(name, tablepath, col, first) ==
    NewColumn(col, ColumnPath(tablepath, col),
              Subtable(col, ColumnPath(tablepath, col), Relation(col),
                       IF first THEN "cannot have a subtable as first column" ELSE ""))

\* Table::new, lines 72-102, with the columns add_table pushed
NewTable(name, path, outfile, columns, cardinality) ==
    [name |-> name, path |-> path, file |-> outfile, columns |-> columns,
     cardinality |-> cardinality, domain |-> None,
     err |-> FirstErr([i \in 1..Len(columns) |-> columns[i].err])]

\* add_table, lines 291-442
add_table(name, rowpath, outfile, colspec, cardinality) ==
    NewTable(name, TablePath(rowpath), outfile,
             [i \in 1..Len(colspec) |-> add_column(name, TablePath(rowpath), colspec[i], i = 1)],
             cardinality)

\* main, lines 516-536: the settings, with the skip path made absolute
Settings(maintable, rowpath, skip) ==
    [maintable |-> maintable, rowpath |-> rowpath,
     skip |-> IF skip = <<>> THEN <<>>
              ELSE maintable.path \o (IF Head(skip) # "/" THEN <<"/">> \o skip ELSE skip),
     hush_warning |-> FALSE,
     emit_copyfrom |-> FALSE, emit_createtable |-> FALSE, emit_starttransaction |-> FALSE,
     emit_truncate |-> FALSE, emit_droptable |-> FALSE]

\* main, lines 519-523: the emit flags, for the set of keywords that the
\* 'emit' text of the configuration contains
EmitKeywords == {"copy_from", "create_table", "start_trans", "truncate", "drop_table"}

WithEmit(settings, keywords) ==
    [settings EXCEPT !.emit_copyfrom = (keywords \cap EmitKeywords # {}),
                     !.emit_createtable = ("create_table" \in keywords),
                     !.emit_starttransaction = ("start_trans" \in keywords),
                     !.emit_truncate = ("truncate" \in keywords),
                     !.emit_droptable = ("drop_table" \in keywords)]

\* main, lines 510-536: the settings and the main table of a configuration file
\* with the keys name, path, cols, skip (the other keys keep their defaults)
Config(name, rowpath, skip, colspec) ==
    Settings(add_table(name, rowpath, None, colspec, "Default"), rowpath, skip)

\* The table a reference (&Table) addresses
RECURSIVE TableAt(_, _)
TableAt(t, ref) ==
    IF ref = <<>> THEN t ELSE TableAt(Unwrap(t.columns[Head(ref)].subtable), Tail(ref))

T(ref) == TableAt(cfg.maintable, ref)

RECURSIVE TableRefs(_)
TableRefs(t) ==
    {<<>>} \cup UNION { { <<i>> \o r : r \in TableRefs(Unwrap(t.columns[i].subtable)) } :
                        i \in { j \in 1..Len(t.columns) : IsSome(t.columns[j].subtable) } }


(***************************************************************************)
(* Mutable cells of the tables, and struct State                           *)
(***************************************************************************)
\* Domain { lastid: 0, map: HashMap::new(), table }: the map is a set of
\* [key, id] entries; buf, sent, chan, sink and exited are those of the
\* domain's table (see NewCells)
EmptyDomain ==
    [lastid |-> 0, map |-> {}, buf |-> <<>>, sent |-> <<>>,
     chan |-> <<>>, sink |-> <<>>, exited |-> FALSE]

contains_key(map, key) == \E e \in map : e.key = key
get(map, key) == (CHOOSE e \in map : e.key = key).id
insert(map, key, id) == { e \in map : e.key # key } \cup {[key |-> key, id |-> id]}

\* Table::new, lines 74-101: buf, lastid, the column values and serial
\* cells; sent holds every chunk sent on writer_channel, in order; chan holds
\* the chunks the writer thread has not received yet, sink the bytes it has
\* written to the output (out), and exited says that the thread has ended
NewCells(t) ==
    [value |-> [i \in 1..Len(t.columns) |-> <<>>],
     serial |-> [i \in 1..Len(t.columns) |-> 0],
     lastid |-> <<>>, buf |-> <<>>, sent |-> <<>>,
     chan |-> <<>>, sink |-> <<>>, exited |-> FALSE,
     domain |-> EmptyDomain,
     coldomain |-> [i \in 1..Len(t.columns) |-> EmptyDomain]]

\* writer_channel.send(chunk), lines 104 and 117
send(cells, chunk) == [cells EXCEPT !.sent = Append(@, chunk), !.chan = Append(@, chunk)]

\* flush that sends the buffer without taking it (mem::take left out)
flush_NoTake(cells) ==
    IF Len(cells.buf) > 0 THEN send(cells, cells.buf) ELSE cells

\* flush without the test of the length (line 104 without its condition)
flush_Always(cells) == [send(cells, cells.buf) EXCEPT !.buf = <<>>]

\* Table::flush, lines 103-105
flush(cells) ==
    IF Len(cells.buf) > 0 THEN [send(cells, cells.buf) EXCEPT !.buf = <<>>] ELSE cells

\* Table::clear_columns, lines 106-110
clear_columns(cells) == [cells EXCEPT !.value = [i \in DOMAIN cells.value |-> <<>>]]

(***************************************************************************)
(* The SQL preamble, Table::drop and the writer threads.  A line of SQL    *)
(* is kept as one element of a chunk; the bytes of a data row are one      *)
(* element each.                                                           *)
(***************************************************************************)
\* Vec<String>::join(sep), lines 462 and 477
RECURSIVE join(_, _)
join(strs, sep) ==
    IF strs = <<>> THEN ""
    ELSE IF Len(strs) = 1 THEN strs[1]
    ELSE strs[1] \o sep \o join(Tail(strs), sep)

\* lines 457 and 475: a column is listed unless it is hidden or holds a
\* subtable that is not ManyToOne
Listed(c) == ~(c.hide \/ (IsSome(c.subtable) /\ Unwrap(c.subtable).cardinality # "ManyToOne"))

\* line 445
StartLine == "START TRANSACTION;\n"

\* line 448
DropLine(table) == "DROP TABLE IF EXISTS " \o table.name \o ";\n"

\* lines 450-465; fkey is None or Some([name, datatype]), the text
\* "name datatype" that add_table formats
CreateLine(table, fkey) ==
    IF table.cardinality = "ManyToMany"
    THEN "CREATE TABLE IF NOT EXISTS " \o Unwrap(fkey).name \o "_" \o table.name \o " ("
         \o Unwrap(fkey).name \o " " \o Unwrap(fkey).datatype \o ", " \o table.name \o " "
         \o (IF table.columns = <<>> THEN "integer" ELSE table.columns[1].datatype) \o ");\n"
    ELSE "CREATE TABLE IF NOT EXISTS " \o table.name \o " ("
         \o (IF IsSome(fkey) THEN Unwrap(fkey).name \o " " \o Unwrap(fkey).datatype \o ", " ELSE "")
         \o join([i \in 1..Len(SelectSeq(table.columns, Listed)) |->
                     SelectSeq(table.columns, Listed)[i].name \o " "
                     \o SelectSeq(table.columns, Listed)[i].datatype], ", ")
         \o ");\n"

\* line 468
TruncateLine(table) == "TRUNCATE " \o table.name \o ";\n"

\* lines 470-484
CopyLine(table, fkey) ==
    IF table.cardinality = "ManyToMany"
    THEN "COPY " \o Unwrap(fkey).name \o "_" \o table.name \o " (" \o Unwrap(fkey).name
         \o ", " \o table.name \o ") FROM stdin;\n"
    ELSE "COPY " \o table.name \o " ("
         \o (IF IsSome(fkey) THEN Unwrap(fkey).name \o ", " ELSE "")
         \o join([i \in 1..Len(SelectSeq(table.columns, Listed)) |->
                     SelectSeq(table.columns, Listed)[i].name], ", ")
         \o ") FROM stdin;\n"

\* emit_preamble in which TRUNCATE is written before CREATE TABLE
emit_preamble_TruncateFirst(cells, table, settings, fkey) ==
    flush([cells EXCEPT !.buf = @
        \o (IF settings.emit_starttransaction THEN <<StartLine>> ELSE <<>>)
        \o (IF settings.emit_droptable THEN <<DropLine(table)>> ELSE <<>>)
        \o (IF settings.emit_truncate THEN <<TruncateLine(table)>> ELSE <<>>)
        \o (IF settings.emit_createtable THEN <<CreateLine(table, fkey)>> ELSE <<>>)
        \o (IF settings.emit_copyfrom THEN <<CopyLine(table, fkey)>> ELSE <<>>)])

\* emit_preamble, lines 443-487
emit_preamble(cells, table, settings, fkey) ==
    flush([cells EXCEPT !.buf = @
        \o (IF settings.emit_starttransaction THEN <<StartLine>> ELSE <<>>)
        \o (IF settings.emit_droptable THEN <<DropLine(table)>> ELSE <<>>)
        \o (IF settings.emit_createtable THEN <<CreateLine(table, fkey)>> ELSE <<>>)
        \o (IF settings.emit_truncate THEN <<TruncateLine(table)>> ELSE <<>>)
        \o (IF settings.emit_copyfrom THEN <<CopyLine(table, fkey)>> ELSE <<>>)])

\* The text add_table passes as fkey to emit_preamble for the table at ref
\* (lines 328, 337, 351 and 358): the parent's name and the datatype of its
\* column 0; None for the main table and a ManyToOne subtable (lines 345, 532)
FkeyOf(maintable, ref) ==
    IF ref = <<>> \/ TableAt(maintable, ref).cardinality = "ManyToOne" THEN None
    ELSE Some([name |-> TableAt(maintable, Pop(ref)).name,
               datatype |-> TableAt(maintable, Pop(ref)).columns[1].datatype])

\* lines 393 and 374-378: the preamble of a domain's table, when it has a file
OpenDomain(dcells, domain, settings) ==
    IF IsSome(domain) /\ IsSome(Unwrap(domain).file)
    THEN emit_preamble(dcells, Unwrap(domain), settings, None)
    ELSE dcells

\* The cells of a table after add_table and emit_preamble, with those of its
\* domain and of the domains of its columns
OpenCells(c, t, settings, fkey) ==
    [c EXCEPT !.domain = OpenDomain(@, t.domain, settings),
              !.coldomain = [i \in DOMAIN @ |-> OpenDomain(@[i], t.columns[i].domain, settings)]]

\* The cells of every table when the main loop begins
OpenTables(config) ==
    [ref \in TableRefs(config.maintable) |->
        OpenCells(emit_preamble(NewCells(TableAt(config.maintable, ref)),
                                TableAt(config.maintable, ref), config,
                                FkeyOf(config.maintable, ref)),
                  TableAt(config.maintable, ref), config, FkeyOf(config.maintable, ref))]

\* Table::new, lines 99-100: a table with cardinality None has no COPY and
\* no transaction of its own
TableEmit(table, settings) ==
    [copyfrom |-> table.cardinality # "None" /\ settings.emit_copyfrom,
     starttransaction |-> table.cardinality # "None" /\ settings.emit_starttransaction]

\* Table::drop, lines 113-117: the end of the COPY data and COMMIT, flush,
\* and the empty chunk that ends the writer thread
drop(cells, emit) ==
    send(flush([cells EXCEPT !.buf = @
                    \o (IF emit.copyfrom THEN <<"\\.\n">> ELSE <<>>)
                    \o (IF emit.starttransaction THEN <<"COMMIT;\n">> ELSE <<>>)]),
         <<>>)

\* write_output that stops at the empty chunk without taking it from the
\* channel, and writes a received chunk twice
write_output_Twice(c) ==
    IF Len(Head(c.chan)) = 0 THEN [c EXCEPT !.chan = Tail(@), !.exited = TRUE]
    ELSE [c EXCEPT !.chan = Tail(@), !.sink = @ \o Head(c.chan) \o Head(c.chan)]

\* write_output that goes on after the empty chunk (the break of line 1126
\* left out)
write_output_NoBreak(c) ==
    [c EXCEPT !.chan = Tail(@), !.sink = @ \o Head(c.chan)]

\* write_output, lines 1124-1129: one pass of the loop of a writer thread
\* that has a chunk to receive
write_output(c) ==
    IF Len(Head(c.chan)) = 0 THEN [c EXCEPT !.chan = Tail(@), !.exited = TRUE]
    ELSE [c EXCEPT !.chan = Tail(@), !.sink = @ \o Head(c.chan)]

\* The tables that own a writer thread, as <<ref, k>>: k = 0 is the table at
\* ref, k = i the table of the domain of its column i, k = -1 the table of
\* its own domain; in the order in which they are dropped when main returns
\* (Table::drop, then the fields columns and domain, lines 58-70 and 139-160)
RECURSIVE DropOrder(_, _)
ColumnDrops(t, ref, i) ==
    IF IsSome(t.columns[i].subtable) THEN DropOrder(Unwrap(t.columns[i].subtable), ref \o <<i>>)
    ELSE IF IsSome(t.columns[i].domain) THEN << <<ref, i>> >>
    ELSE <<>>

DropOrder(t, ref) ==
    << <<ref, 0>> >>
    \o Concat([i \in 1..Len(t.columns) |-> ColumnDrops(t, ref, i)])
    \o (IF IsSome(t.domain) THEN << <<ref, -1>> >> ELSE <<>>)

\* The cells of the table a <<ref, k>> names, and the tables with them replaced
Chan(tb, s) ==
    IF s[2] = 0 THEN tb[s[1]]
    ELSE IF s[2] = -1 THEN tb[s[1]].domain
    ELSE tb[s[1]].coldomain[s[2]]

SetChan(tb, s, c) ==
    IF s[2] = 0 THEN [tb EXCEPT ![s[1]] = c]
    ELSE IF s[2] = -1 THEN [tb EXCEPT ![s[1]].domain = c]
    ELSE [tb EXCEPT ![s[1]].coldomain[s[2]] = c]

\* The Table a <<ref, k>> names
SinkTable(maintable, s) ==
    IF s[2] = 0 THEN TableAt(maintable, s[1])
    ELSE IF s[2] = -1 THEN Unwrap(TableAt(maintable, s[1]).domain)
    ELSE Unwrap(TableAt(maintable, s[1]).columns[s[2]].domain)

\* Table::drop has sent the empty chunk
Dropped(c) == c.sent # <<>> /\ Len(Last(c.sent)) = 0

\* main, lines 542-564
InitState ==
    [tables |-> <<>>, table |-> <<>>, path |-> <<>>, parentcol |-> None, deferred |-> None,
     filtered |-> FALSE, skipped |-> FALSE, fullcount |-> 0, filtercount |-> 0, skipcount |-> 0,
     concattext |-> FALSE, xmltotext |-> FALSE, text |-> <<>>, gmltoewkb |-> FALSE,
     gmlpos |-> FALSE, gmlcoll |-> <<>>, step |-> "Next"]

(***************************************************************************)
(* path_match, allow_iteration and the text rewrites                       *)
(***************************************************************************)
\* glob_match(mask, path) for masks with '*' (a run of characters other than '/')
RECURSIVE glob_match(_, _)
glob_match(mask, path) ==
    IF mask = <<>> THEN path = <<>>
    ELSE IF Head(mask) = "*"
         THEN glob_match(Tail(mask), path)
              \/ (path # <<>> /\ Head(path) # "/" /\ glob_match(mask, Tail(path)))
         ELSE path # <<>> /\ Head(path) = Head(mask) /\ glob_match(Tail(mask), Tail(path))

\* path_match, lines 1102-1105
path_match(path, mask) ==
    IF ~Contains(mask, "*") /\ ~Contains(mask, "{") THEN path = mask ELSE glob_match(mask, path)

\* allow_iteration where "append" does not push the separator (line 1117
\* left out)
allow_iteration_NoSeparator(column, value) ==
    IF column.aggr = None THEN [allow |-> FALSE, value |-> value]
    ELSE IF column.aggr = Some("first") THEN [allow |-> FALSE, value |-> value]
    ELSE [allow |-> TRUE, value |-> value]

\* allow_iteration, lines 1107-1122: whether a further value may be written,
\* and the column value afterwards ("append" pushes the separator)
allow_iteration(column, value) ==
    IF column.aggr = None THEN [allow |-> FALSE, value |-> value]
    ELSE IF column.aggr = Some("first") THEN [allow |-> FALSE, value |-> value]
    ELSE IF column.aggr = Some("last") THEN [allow |-> TRUE, value |-> value]
    ELSE IF column.aggr = Some("append")
         THEN [allow |-> TRUE, value |-> IF value # <<>> THEN value \o <<",">> ELSE value]
    ELSE [allow |-> TRUE, value |-> value]

\* line 860: the TSV escapes of a trimmed column, backslash first
escape_trimmed(s) == cow_replace(cow_replace(s, "\\", <<"\\", "\\">>), "\t", <<"\\", "t">>)

\* escape with the backslash replaced last instead of first
escape_BackslashLast(s) ==
    cow_replace(cow_replace(cow_replace(cow_replace(s,
        "\r", <<"\\", "r">>), "\n", <<"\\", "n">>), "\t", <<"\\", "t">>), "\\", <<"\\", "\\">>)

\* line 863: the TSV escapes, backslash first
escape(s) ==
    cow_replace(cow_replace(cow_replace(cow_replace(s,
        "\\", <<"\\", "\\">>), "\r", <<"\\", "r">>), "\n", <<"\\", "n">>), "\t", <<"\\", "t">>)

\* trimre, line 563: every maximal run of whitespace that holds a line feed
\* becomes one space
RECURSIVE trimre_replace(_)
trimre_replace(s) ==
    IF s = <<>> THEN <<>>
    ELSE IF IsWhitespace(Head(s))
         THEN LET n == CHOOSE k \in 1..Len(s) :
                        /\ \A j \in 1..k : IsWhitespace(s[j])
                        /\ (k = Len(s) \/ ~IsWhitespace(s[k + 1]))
                  run == SubSeq(s, 1, n)
                  rest == SubSeq(s, n + 1, Len(s))
              IN  (IF Contains(run, "\n") THEN <<" ">> ELSE run) \o trimre_replace(rest)
         ELSE <<Head(s)>> \o trimre_replace(Tail(s))

\* Regex::replace_all with a literal replacement
RECURSIVE replace_infix(_, _, _)
replace_infix(s, lit, rep) ==
    IF Len(s) < Len(lit) \/ lit = <<>> THEN s
    ELSE IF SubSeq(s, 1, Len(lit)) = lit
         THEN rep \o replace_infix(SubSeq(s, Len(lit) + 1, Len(s)), lit, rep)
         ELSE <<Head(s)>> \o replace_infix(Tail(s), lit, rep)

replace_all(re, s, rep) ==
    IF re.kind = "exact" THEN (IF s = re.lit THEN rep ELSE s) ELSE replace_infix(s, re.lit, rep)

\* lines 792-795 and 865-868: find and replace apply only when both are set
rewrite(column, s) ==
    IF IsSome(column.find) /\ IsSome(column.replace)
    THEN replace_all(Unwrap(column.find), s, Unwrap(column.replace))
    ELSE s

(***************************************************************************)
(* process_event                                                           *)
(***************************************************************************)
\* A world is [st: State, tb: cells of every table, deferred: main's Vec,
\* fatal: message]; process_event returns the world with st.step set to the
\* Step it returns (main assigns it at lines 572 and 596).
Ret(w, step) == [w EXCEPT !.st.step = step]
Fatal(w, msg) == [w EXCEPT !.fatal = msg]

\* str::truncate(rfind('/')), lines 883-884 and 1064-1065
TruncatePath(path) == SubSeq(path, 1, RFind(path, "/") - 1)


\* str::parse::<u32>() and ::<u8>() of a string of decimal digits; numbers
\* of more than 9 digits are outside the model
DigitValue(c) == CHOOSE d \in 0..9 : Digits[d + 1] = c

RECURSIVE DecimalValue(_)
DecimalValue(s) == IF s = <<>> THEN 0 ELSE DecimalValue(Pop(s)) * 10 + DigitValue(Last(s))

IsDecimal(s) == s # <<>> /\ Len(s) <= 9 /\ \A i \in 1..Len(s) : \E d \in 0..9 : Digits[d + 1] = s[i]

parse_u32(s) == IF IsDecimal(s) THEN Some(DecimalValue(s)) ELSE None
parse_u8(s) == IF IsDecimal(s) /\ DecimalValue(s) < 256 THEN Some(DecimalValue(s)) ELSE None

\* Geometry::new, lines 168-172
NewGeometry(gtype) == [gtype |-> gtype, dims |-> 2, srid |-> 4326, rings |-> <<>>]

GmlPoint == <<"g", "m", "l", ":", "P", "o", "i", "n", "t">>
GmlLineString == <<"g", "m", "l", ":", "L", "i", "n", "e", "S", "t", "r", "i", "n", "g">>
GmlPolygon == <<"g", "m", "l", ":", "P", "o", "l", "y", "g", "o", "n">>
GmlLinearRing == <<"g", "m", "l", ":", "L", "i", "n", "e", "a", "r", "R", "i", "n", "g">>
GmlPosList == <<"g", "m", "l", ":", "p", "o", "s", "L", "i", "s", "t">>
GmlPos == <<"g", "m", "l", ":", "p", "o", "s">>

\* value.rfind("::") and split_off(i+2), lines 720-722
AfterLastColons(v) ==
    LET idx == { i \in 1..(Len(v) - 1) : v[i] = ":" /\ v[i + 1] = ":" }
    IN  IF idx = {} THEN v
        ELSE LET i == CHOOSE m \in idx : \A n \in idx : n <= m IN SubSeq(v, i + 2, Len(v))

\* lines 711-743: srsName and srsDimension set srid and dims of the last geometry
RECURSIVE GmlAttributes(_, _, _)
GmlAttributes(coll, attrs, k) ==
    IF k > Len(attrs) THEN coll
    ELSE LET a == attrs[k]
             n == Len(coll)
             srid == parse_u32(AfterLastColons(a.value))
             dims == parse_u8(a.value)
             c1 == IF a.key = "srsName" /\ IsSome(srid) /\ n > 0
                   THEN [coll EXCEPT ![n].srid = Unwrap(srid)]
                   ELSE IF a.key = "srsDimension" /\ IsSome(dims) /\ n > 0
                        THEN [coll EXCEPT ![n].dims = Unwrap(dims)]
                        ELSE coll
         IN  GmlAttributes(c1, attrs, k + 1)

\* Event::Start while gmltoewkb, lines 688-745
GmlStart(w, e) ==
    LET coll == w.st.gmlcoll
        n == Len(coll)
        tag == e.name
    IN  IF tag = GmlLinearRing /\ n = 0
        THEN Fatal(w, "panic: gml:LinearRing outside a geometry")
        ELSE LET c1 == IF tag = GmlPoint THEN Append(coll, [NewGeometry(1) EXCEPT !.rings = << <<>> >>])
                       ELSE IF tag = GmlLineString
                            THEN Append(coll, [NewGeometry(2) EXCEPT !.rings = << <<>> >>])
                       ELSE IF tag = GmlPolygon THEN Append(coll, NewGeometry(3))
                       ELSE IF tag = GmlLinearRing THEN [coll EXCEPT ![n].rings = Append(@, <<>>)]
                       ELSE coll
                 pos1 == IF tag \in {GmlPosList, GmlPos} THEN TRUE ELSE w.st.gmlpos
             IN  Ret([w EXCEPT !.st.gmlcoll = GmlAttributes(c1, e.attrs, 1), !.st.gmlpos = pos1], "Next")

\* lines 782-803: the loop over the attributes of the start tag, for column i
\* (the first column is i = 1) with the attribute named request
RECURSIVE AttrLoop(_, _, _, _, _)
AttrLoop(cells, column, i, attrs, k) ==
    IF k > Len(attrs) THEN cells
    ELSE IF attrs[k].key # Unwrap(column.attr) THEN AttrLoop(cells, column, i, attrs, k + 1)
    ELSE LET v == cells.value[i]
             it == allow_iteration(column, v)
         IN  IF v # <<>> /\ ~it.allow THEN cells
             ELSE LET v1 == IF v = <<>> THEN v
                            ELSE IF column.aggr = Some("last") THEN <<>> ELSE it.value
                      lastid == IF i = 1 THEN cells.lastid \o attrs[k].value ELSE cells.lastid
                      v2 == v1 \o rewrite(column, attrs[k].value)
                  IN  AttrLoop([cells EXCEPT !.value[i] = v2, !.lastid = lastid],
                               column, i, attrs, k + 1)

\* lines 810-816
SetConvert(st, column) ==
    IF column.convert = Some("xml-to-text") THEN [st EXCEPT !.xmltotext = TRUE]
    ELSE IF column.convert = Some("gml-to-ewkb") THEN [st EXCEPT !.gmltoewkb = TRUE]
    ELSE IF column.convert = Some("concat-text") THEN [st EXCEPT !.concattext = TRUE]
    ELSE st

\* NextSerial without serial.set(id) (line 771 left out)
NextSerial_NotStored(cells, i) ==
    [cells EXCEPT !.value[i] = @ \o to_string(cells.serial[i] + 1),
                  !.lastid = @ \o to_string(cells.serial[i] + 1)]

\* lines 766-772: a serial column takes the next value of its counter
NextSerial(cells, i) ==
    [cells EXCEPT !.value[i] = @ \o to_string(cells.serial[i] + 1),
                  !.lastid = @ \o to_string(cells.serial[i] + 1),
                  !.serial[i] = cells.serial[i] + 1]

\* lines 761-818: the loop over the columns of the active table at a start
\* tag; subtable is the column that holds a subtable starting here
RECURSIVE StartColumns(_, _, _, _)
StartColumns(w, e, i, subtable) ==
    LET ref == w.st.table
        table == T(ref)
        cells == w.tb[ref]
    IN  IF w.fatal # "" \/ i > Len(table.columns) THEN [w |-> w, subtable |-> subtable]
        ELSE IF ~path_match(w.st.path, table.columns[i].path) THEN StartColumns(w, e, i + 1, subtable)
        ELSE LET column == table.columns[i] IN
             IF column.serial /\ cells.value[i] = <<>>
             THEN StartColumns([w EXCEPT !.tb[ref] = NextSerial(cells, i)], e, i + 1, subtable)
             ELSE IF IsSome(column.subtable) /\ IsSome(subtable)
             THEN [w |-> Fatal(w, "multiple subtables starting from the same element is not supported"),
                   subtable |-> subtable]
             ELSE LET sub1 == IF IsSome(column.subtable) THEN Some(i) ELSE subtable IN
                  IF IsSome(column.attr)
                  THEN StartColumns([w EXCEPT !.tb[ref] = AttrLoop(cells, column, i, e.attrs, 1)],
                                    e, i + 1, sub1)
                  ELSE StartColumns([w EXCEPT !.st = SetConvert(w.st, column)], e, i + 1, sub1)

\* Event::Start, lines 746-825: past the early returns
StartInTable(w, e) ==
    LET ref == w.st.table
        table == T(ref)
        w1 == IF path_match(w.st.path, table.path) THEN [w EXCEPT !.tb[ref].lastid = <<>>] ELSE w
        w2 == IF path_match(w.st.path, cfg.rowpath) THEN [w1 EXCEPT !.st.fullcount = @ + 1] ELSE w1
        r == StartColumns(w2, e, 1, None)
    IN  IF r.w.fatal # "" THEN r.w
        ELSE IF IsSome(r.subtable)
        THEN Ret([r.w EXCEPT !.st.tables = Append(@, ref),
                             !.st.parentcol = Some([table |-> ref, col |-> Unwrap(r.subtable)]),
                             !.st.table = ref \o <<Unwrap(r.subtable)>>], "Repeat")
        ELSE Ret(r.w, "Next")

\* Event::Start, lines 658-826
process_start(w0, e) ==
    LET w == IF w0.st.step # "Repeat" THEN [w0 EXCEPT !.st.path = @ \o <<"/">> \o e.name] ELSE w0
        st == w.st
        table == T(st.table)
    IN  IF IsSome(st.deferred) /\ StartsWith(st.path, Unwrap(st.deferred)) THEN Ret(w, "Defer")
        ELSE IF st.filtered \/ st.skipped THEN Ret(w, "Next")
        ELSE IF /\ st.tables # <<>>
                /\ path_match(st.path, table.path)
                /\ table.cardinality # "ManyToOne"
                /\ w.tb[Last(st.tables)].lastid = <<>>
        THEN IF IsSome(st.deferred)
             THEN Fatal(w, "multiple subtables that precede the parent table id column")
             ELSE Ret([w EXCEPT !.st.deferred = Some(st.path)], "Defer")
        ELSE IF path_match(st.path, cfg.skip) THEN Ret([w EXCEPT !.st.skipped = TRUE], "Next")
        ELSE IF st.concattext THEN Ret(w, "Next")
        ELSE IF st.xmltotext
        THEN Ret([w EXCEPT !.st.text = @ \o <<"<">> \o e.name \o <<">">>], "Next")
        ELSE IF st.gmltoewkb THEN GmlStart(w, e)
        ELSE IF Len(st.path) >= Len(table.path) THEN StartInTable(w, e)
        ELSE Ret(w, "Next")


\* str::split(sep): the pieces between the separators, empty pieces included
RECURSIVE Split(_, _)
Split(s, sep) ==
    IF ~Contains(s, sep) THEN <<s>>
    ELSE LET i == CHOOSE k \in 1..Len(s) : s[k] = sep /\ \A j \in 1..(k - 1) : s[j] # sep
         IN  <<SubSeq(s, 1, i - 1)>> \o Split(SubSeq(s, i + 1, Len(s)), sep)

\* Event::Text while gmltoewkb, lines 841-849: the coordinates of a
\* gml:pos / gml:posList, here decimal numbers without sign or fraction
GmlText(w, e) ==
    IF ~w.st.gmlpos THEN Ret(w, "Next")
    ELSE LET pieces == Split(e.text, " ")
             n == Len(w.st.gmlcoll)
         IN  IF n = 0 \/ w.st.gmlcoll[n].rings = <<>>
             THEN Fatal(w, "panic: gml:pos outside a geometry ring")
             ELSE IF \E i \in 1..Len(pieces) : parse_u32(pieces[i]) = None
             THEN Fatal(w, "failed to parse GML pos into float")
             ELSE LET m == Len(w.st.gmlcoll[n].rings)
                      coords == [i \in 1..Len(pieces) |-> Unwrap(parse_u32(pieces[i]))]
                  IN  Ret([w EXCEPT !.st.gmlcoll[n].rings[m] = @ \o coords], "Next")

\* lines 850-875: the loop over the columns of the active table at a text node
RECURSIVE TextColumns(_, _, _)
TextColumns(w, e, i) ==
    LET ref == w.st.table
        table == T(ref)
        cells == w.tb[ref]
    IN  IF i > Len(table.columns) THEN Ret(w, "Next")
        ELSE IF ~path_match(w.st.path, table.columns[i].path) THEN TextColumns(w, e, i + 1)
        ELSE LET column == table.columns[i] IN
             IF IsSome(column.attr) \/ column.serial THEN TextColumns(w, e, i + 1)
             ELSE LET v == cells.value[i]
                      it == allow_iteration(column, v)
                  IN  IF v # <<>> /\ ~it.allow THEN Ret(w, "Next")
                      ELSE LET v1 == IF v = <<>> THEN v
                                     ELSE IF column.aggr = Some("last") THEN <<>> ELSE it.value
                               decoded == e.text
                               v2 == IF column.trim
                                     THEN v1 \o escape_trimmed(trimre_replace(decoded))
                                     ELSE v1 \o escape(decoded)
                               v3 == rewrite(column, v2)
                               lastid == IF i = 1 THEN cells.lastid \o v3 ELSE cells.lastid
                           IN  Ret([w EXCEPT !.tb[ref].value[i] = v3, !.tb[ref].lastid = lastid], "Next")

\* Event::Text, lines 827-876
process_text(w, e) ==
    LET st == w.st IN
    IF IsSome(st.deferred) /\ StartsWith(st.path, Unwrap(st.deferred)) THEN Ret(w, "Defer")
    ELSE IF st.filtered \/ st.skipped THEN Ret(w, "Next")
    ELSE IF st.concattext
    THEN Ret([w EXCEPT !.st.text = (IF @ # <<>> THEN @ \o <<" ">> ELSE @) \o e.text], "Next")
    ELSE IF st.xmltotext THEN Ret([w EXCEPT !.st.text = @ \o e.text], "Next")
    ELSE IF st.gmltoewkb THEN GmlText(w, e)
    ELSE TextColumns(w, e, 1)


(***************************************************************************)
(* gml_to_ewkb                                                             *)
(***************************************************************************)
\* u32::to_le_bytes
U32LE(n) == <<n % 256, (n \div 256) % 256, (n \div 65536) % 256, (n \div 16777216) % 256>>

RECURSIVE Pow2(_)
Pow2(k) == IF k = 0 THEN 1 ELSE 2 * Pow2(k - 1)

\* f64::to_le_bytes of a whole number below 2^20: sign 0, exponent
\* 1023 + floor(log2 n), and the fraction in the top 20 bits of the mantissa
F64LE(n) ==
    IF n = 0 THEN <<0, 0, 0, 0, 0, 0, 0, 0>>
    ELSE LET ex == CHOOSE k \in 0..19 : Pow2(k) <= n /\ n < Pow2(k + 1)
             biased == 1023 + ex
             mant == (n - Pow2(ex)) * Pow2(20 - ex)
         IN  <<0, 0, 0, 0, mant % 256, (mant \div 256) % 256,
               (biased % 16) * 16 + (mant \div 65536), biased \div 16>>

HexChars == <<"0", "1", "2", "3", "4", "5", "6", "7", "8", "9", "A", "B", "C", "D", "E", "F">>

\* lines 281-287
RECURSIVE HexEncode(_)
HexEncode(bytes) ==
    IF bytes = <<>> THEN <<>>
    ELSE <<HexChars[(Head(bytes) \div 16) + 1], HexChars[(Head(bytes) % 16) + 1]>> \o HexEncode(Tail(bytes))

\* lines 250-267: one ring's vertices against the bbox; acc is
\* [overlap, overlapx], i counts from 0
RECURSIVE RingOverlap(_, _, _, _, _)
RingOverlap(ring, i, dims, bbox, acc) ==
    IF i >= Len(ring) THEN acc
    ELSE LET p == ring[i + 1]
             inx == p >= bbox.minx /\ p <= bbox.maxx
             a1 == IF acc.overlap THEN acc
                   ELSE IF dims = 2
                        THEN IF i % 2 = 0 THEN [acc EXCEPT !.overlapx = inx]
                             ELSE IF acc.overlapx /\ p < bbox.miny /\ p > bbox.maxy
                                  THEN [acc EXCEPT !.overlap = TRUE] ELSE acc
                        ELSE IF i % 3 = 0 THEN [acc EXCEPT !.overlapx = inx]
                             ELSE IF acc.overlapx /\ i % 3 = 1 /\ p >= bbox.miny /\ p <= bbox.maxy
                                  THEN [acc EXCEPT !.overlap = TRUE] ELSE acc
         IN  RingOverlap(ring, i + 1, dims, bbox, a1)

RECURSIVE RingsOverlap(_, _, _, _)
RingsOverlap(rings, dims, bbox, acc) ==
    IF rings = <<>> THEN acc
    ELSE RingsOverlap(Tail(rings), dims, bbox, RingOverlap(Head(rings), 0, dims, bbox, acc))

\* lines 249 and 273-276: a ring's vertex count (not for points) and coordinates
RingBytes(geom, ring) ==
    (IF geom.gtype # 1 THEN U32LE(Len(ring) \div geom.dims) ELSE <<>>)
    \o Concat([i \in 1..Len(ring) |-> F64LE(ring[i])])

\* lines 232-279: one geometry
GeometryBytes(geom) ==
    LET code == IF geom.dims = 3 THEN 160 ELSE 32
    IN  <<1, geom.gtype, 0, 0, code>> \o U32LE(geom.srid)
        \o (IF geom.gtype = 3 THEN U32LE(Len(geom.rings)) ELSE <<>>)
        \o Concat([r \in 1..Len(geom.rings) |-> RingBytes(geom, geom.rings[r])])

\* gml_to_ewkb with the type of the first geometry as the multi type (line 227
\* without the +3)
gml_to_ewkb_SingleType(coll, bbox, multitype) ==
    LET multi == multitype \/ Len(coll) > 1
        \* the geometries before the first one the bbox prunes
        pruned == { g \in 1..Len(coll) :
                      IsSome(bbox) /\ ~RingsOverlap(coll[g].rings, coll[g].dims, Unwrap(bbox),
                                                    [overlap |-> FALSE, overlapx |-> FALSE]).overlap }
        upto == IF pruned = {} THEN Len(coll) ELSE CHOOSE g \in pruned : \A h \in pruned : g <= h
        divzero == \E g \in 1..upto :
                      coll[g].dims = 0 /\ coll[g].gtype # 1 /\ coll[g].rings # <<>>
        header == IF multi THEN <<1, coll[1].gtype, 0, 0, 0>> \o U32LE(Len(coll)) ELSE <<>>
    IN  IF (multi /\ coll = <<>>) \/ divzero THEN [result |-> "panic", value |-> <<>>]
        ELSE IF pruned # {} THEN [result |-> "pruned", value |-> <<>>]
        ELSE [result |-> "ok",
              value |-> HexEncode(header \o Concat([g \in 1..Len(coll) |-> GeometryBytes(coll[g])]))]

\* gml_to_ewkb, lines 223-289: [result, value] where result is "ok" (true),
\* "pruned" (false, nothing written to the cell) or "panic" (first() of an
\* empty collection, a division by dims = 0)
gml_to_ewkb(coll, bbox, multitype) ==
    LET multi == multitype \/ Len(coll) > 1
        \* the geometries before the first one the bbox prunes
        pruned == { g \in 1..Len(coll) :
                      IsSome(bbox) /\ ~RingsOverlap(coll[g].rings, coll[g].dims, Unwrap(bbox),
                                                    [overlap |-> FALSE, overlapx |-> FALSE]).overlap }
        upto == IF pruned = {} THEN Len(coll) ELSE CHOOSE g \in pruned : \A h \in pruned : g <= h
        divzero == \E g \in 1..upto :
                      coll[g].dims = 0 /\ coll[g].gtype # 1 /\ coll[g].rings # <<>>
        header == IF multi THEN <<1, coll[1].gtype + 3, 0, 0, 0>> \o U32LE(Len(coll)) ELSE <<>>
    IN  IF (multi /\ coll = <<>>) \/ divzero THEN [result |-> "panic", value |-> <<>>]
        ELSE IF pruned # {} THEN [result |-> "pruned", value |-> <<>>]
        ELSE [result |-> "ok",
              value |-> HexEncode(header \o Concat([g \in 1..Len(coll) |-> GeometryBytes(coll[g])]))]


(***************************************************************************)
(* process_event: Event::End                                               *)
(***************************************************************************)
\* state.table = state.tables.pop().unwrap()
PopTable(w) == [w EXCEPT !.st.table = Last(w.st.tables), !.st.tables = Pop(w.st.tables)]

\* lines 1024-1036 and 949-961: the id of a value in a column's domain; a
\* new value gets lastid+1 and its row "id<TAB>value" is sent to the domain table
ColumnDomainId(dom, value) ==
    IF contains_key(dom.map, value) THEN [id |-> get(dom.map, value), dom |-> dom]
    ELSE LET id == dom.lastid + 1
             d1 == [dom EXCEPT !.lastid = id, !.map = insert(@, value, id),
                               !.buf = @ \o to_string(id) \o <<"\t">> \o value \o <<"\n">>]
         IN  [id |-> id, dom |-> flush(d1)]

\* lines 1016-1044: the loop that writes the columns of a row into table.buf
RECURSIVE WriteColumns(_, _, _)
WriteColumns(cells, table, i) ==
    IF i > Len(table.columns) THEN cells
    ELSE LET column == table.columns[i] IN
         IF IsSome(column.subtable) /\ Unwrap(column.subtable).cardinality # "ManyToOne"
         THEN WriteColumns(cells, table, i + 1)
         ELSE IF column.hide
         THEN WriteColumns([cells EXCEPT !.value[i] = <<>>], table, i + 1)
         ELSE LET c1 == IF i > 1 THEN [cells EXCEPT !.buf = @ \o <<"\t">>] ELSE cells IN
              IF c1.value[i] = <<>>
              THEN WriteColumns([c1 EXCEPT !.buf = @ \o <<"\\", "N">>], table, i + 1)
              ELSE IF IsSome(column.domain)
              THEN LET r == ColumnDomainId(c1.coldomain[i], c1.value[i])
                   IN  WriteColumns([c1 EXCEPT !.coldomain[i] = r.dom,
                                               !.buf = @ \o to_string(r.id),
                                               !.value[i] = <<>>], table, i + 1)
              ELSE WriteColumns([c1 EXCEPT !.buf = @ \o c1.value[i], !.value[i] = <<>>],
                                table, i + 1)

\* lines 933-936 and 989-992: the key of a row in the subtable's domain
DomainKey(cells, table) ==
    IF table.columns[1].serial
    THEN Concat([i \in 1..(Len(table.columns) - 1) |-> cells.value[i + 1]])
    ELSE cells.lastid

\* lines 944-967: the loop that writes the columns of a new row into the
\* buffer of the subtable's domain table
RECURSIVE WriteDomainColumns(_, _, _)
WriteDomainColumns(cells, table, i) ==
    IF i > Len(table.columns) THEN cells
    ELSE LET column == table.columns[i] IN
         IF IsSome(column.subtable) \/ column.hide THEN WriteDomainColumns(cells, table, i + 1)
         ELSE LET c1 == IF i > 1 THEN [cells EXCEPT !.domain.buf = @ \o <<"\t">>] ELSE cells IN
              IF c1.value[i] = <<>>
              THEN WriteDomainColumns([c1 EXCEPT !.domain.buf = @ \o <<"\\", "N">>], table, i + 1)
              ELSE IF IsSome(column.domain)
              THEN LET r == ColumnDomainId(c1.coldomain[i], c1.value[i])
                   IN  \* line 962 writes the id into the buffer of the column's own domain table
                       WriteDomainColumns([c1 EXCEPT !.coldomain[i] =
                                                [r.dom EXCEPT !.buf = @ \o to_string(r.id)]],
                                          table, i + 1)
              ELSE WriteDomainColumns([c1 EXCEPT !.domain.buf = @ \o c1.value[i]], table, i + 1)

\* lines 931-984: the row of a subtable (not ManyToOne) that has a domain;
\* cells already holds the foreign key in buf
DomainRow(cells, table) ==
    LET key == DomainKey(cells, table)
        known == contains_key(cells.domain.map, key)
        rowid == IF known THEN get(cells.domain.map, key) ELSE cells.domain.lastid + 1
        c1 == IF known THEN cells
              ELSE LET d1 == [cells EXCEPT !.domain.lastid = rowid,
                                           !.domain.map = insert(@, key, rowid)]
                       d2 == IF Len(table.columns) = 1
                             THEN [d1 EXCEPT !.domain.buf = @ \o to_string(rowid) \o <<"\t">>]
                             ELSE d1
                       d3 == WriteDomainColumns(d2, table, 1)
                   IN  [d3 EXCEPT !.domain = flush([d3.domain EXCEPT !.buf = @ \o <<"\n">>])]
        c2 == IF Len(table.columns) = 1
              THEN [c1 EXCEPT !.buf = @ \o to_string(rowid)]
              ELSE [c1 EXCEPT !.buf = @ \o c1.lastid]
    IN  clear_columns(flush([c2 EXCEPT !.buf = @ \o <<"\n">>]))

\* RowFiltered without the exclude filter (lines 909-913 left out)
RowFiltered_IncludeOnly(w) ==
    LET table == T(w.st.table)
        cells == w.tb[w.st.table]
    IN  \/ w.st.filtered
        \/ \E i \in 1..Len(table.columns) :
              /\ IsSome(table.columns[i].include)
              /\ ~is_match(Unwrap(table.columns[i].include), cells.value[i])

\* lines 900-914: the include and exclude filters of every column
RowFiltered(w) ==
    LET table == T(w.st.table)
        cells == w.tb[w.st.table]
    IN  \/ w.st.filtered
        \/ \E i \in 1..Len(table.columns) :
              \/ IsSome(table.columns[i].include)
                 /\ ~is_match(Unwrap(table.columns[i].include), cells.value[i])
              \/ IsSome(table.columns[i].exclude)
                 /\ is_match(Unwrap(table.columns[i].exclude), cells.value[i])

\* EmitRow without the line feed that ends the row (line 1045 left out)
EmitRow_NoLineFeed(w) ==
    LET ref == w.st.table
        c1 == WriteColumns(w.tb[ref], T(ref), 1)
    IN  [w EXCEPT !.tb[ref] = flush(c1)]

\* lines 1015-1047: write out the column values, the line feed, and flush
EmitRow(w) ==
    LET ref == w.st.table
        c1 == WriteColumns(w.tb[ref], T(ref), 1)
    IN  [w EXCEPT !.tb[ref] = flush([c1 EXCEPT !.buf = @ \o <<"\n">>])]

\* lines 986-1013: the end of a ManyToOne subtable row; [w, done] where done
\* says that the row was already known to the domain (return Step::Repeat)
ManyToOneRow(w) ==
    LET ref == w.st.table
        table == T(ref)
        cells == w.tb[ref]
        pc == Unwrap(w.st.parentcol)
        pcol == T(pc.table).columns[pc.col]
        key == DomainKey(cells, table)
    IN  IF IsSome(table.domain) /\ contains_key(cells.domain.map, key)
        THEN LET id == IF table.columns[1].serial THEN to_string(get(cells.domain.map, key))
                       ELSE cells.lastid
                 w1 == [w EXCEPT !.tb[pc.table].value[pc.col] = @ \o id]
             IN  [w |-> PopTable([w1 EXCEPT !.tb[ref] = clear_columns(w1.tb[ref])]), done |-> TRUE]
        ELSE LET w1 == IF IsSome(table.domain)
                       THEN [w EXCEPT !.tb[ref].domain.lastid = @ + 1,
                                      !.tb[ref].domain.map = insert(@, key, cells.domain.lastid + 1)]
                       ELSE w
                 pv == w1.tb[pc.table].value[pc.col]
                 w2 == IF pv = <<>>
                       THEN [w1 EXCEPT !.tb[pc.table].value[pc.col] = w1.tb[ref].lastid]
                       ELSE [w1 EXCEPT !.tb[pc.table].value[pc.col] = allow_iteration(pcol, pv).value]
             IN  [w |-> w2, done |-> FALSE]

\* WriteForeignKey with the subtable's own lastid in place of the parent's
WriteForeignKey_OwnId(w) ==
    [w EXCEPT !.tb[w.st.table].buf = @ \o w.tb[w.st.table].lastid \o <<"\t">>]

\* lines 926-929: a subtable that is not ManyToOne writes the parent's lastid
\* and a TAB first
WriteForeignKey(w) ==
    [w EXCEPT !.tb[w.st.table].buf = @ \o w.tb[Last(w.st.tables)].lastid \o <<"\t">>]

\* lines 899-1052: the end tag of the active table's row; [w, repeat] where
\* repeat says that the handler returns Step::Repeat
RowEnd(w) ==
    LET ref == w.st.table
        table == T(ref)
    IN  IF RowFiltered(w)
        THEN LET w1 == [w EXCEPT !.st.filtered = FALSE, !.tb[ref] = clear_columns(@)]
             IN  IF w.st.tables = <<>>
                 THEN [w |-> [w1 EXCEPT !.st.filtercount = @ + 1], repeat |-> FALSE]
                 ELSE [w |-> PopTable(w1), repeat |-> TRUE]
        ELSE IF w.st.tables = <<>> THEN [w |-> EmitRow(w), repeat |-> FALSE]
        ELSE IF table.cardinality # "ManyToOne"
        THEN LET w1 == WriteForeignKey(w)
             IN  IF IsSome(table.domain)
                 THEN [w |-> PopTable([w1 EXCEPT !.tb[ref] = DomainRow(w1.tb[ref], table)]),
                       repeat |-> TRUE]
                 ELSE [w |-> PopTable(EmitRow(w1)), repeat |-> TRUE]
        ELSE LET r == ManyToOneRow(w)
             IN  IF r.done THEN [w |-> r.w, repeat |-> TRUE]
                 ELSE [w |-> PopTable(EmitRow(r.w)), repeat |-> TRUE]


\* lines 889-897: the end tag of a concat-text column
ConcatEnd(w) ==
    LET ref == w.st.table
        table == T(ref)
        hit == { i \in 1..Len(table.columns) : path_match(w.st.path, table.columns[i].path) }
    IN  IF ~w.st.concattext \/ hit = {} THEN w
        ELSE LET i == CHOOSE m \in hit : \A n \in hit : m <= n
             IN  \* the first matching column takes the text; a later one appends the cleared text
                 [w EXCEPT !.st.concattext = FALSE, !.tb[ref].value[i] = @ \o w.st.text,
                           !.st.text = <<>>]

\* lines 1067-1080: xml-to-text at an end tag, after the path was truncated
XmlToTextEnd(w, tag) ==
    LET ref == w.st.table
        table == T(ref)
        text == w.st.text \o <<"<">> \o tag \o <<">">>
        hit == { i \in 1..Len(table.columns) : path_match(w.st.path, table.columns[i].path) }
    IN  IF hit = {} THEN Ret([w EXCEPT !.st.text = text], "Next")
        ELSE LET i == CHOOSE m \in hit : \A n \in hit : m <= n
             IN  Ret([w EXCEPT !.st.xmltotext = FALSE,
                               !.tb[ref].value[i] = @ \o rewrite(table.columns[i], text),
                               !.st.text = <<>>], "Next")

\* lines 1081-1093: gml-to-ewkb at an end tag, after the path was truncated
GmlEnd(w, tag) ==
    LET ref == w.st.table
        table == T(ref)
        w1 == IF w.st.gmlpos /\ tag \in {<<"/">> \o GmlPos, <<"/">> \o GmlPosList}
              THEN [w EXCEPT !.st.gmlpos = FALSE] ELSE w
        hit == { i \in 1..Len(table.columns) : path_match(w.st.path, table.columns[i].path) }
    IN  IF hit = {} THEN Ret(w1, "Next")
        ELSE LET i == CHOOSE m \in hit : \A n \in hit : m <= n
                 r == gml_to_ewkb(w.st.gmlcoll, table.columns[i].bbox, table.columns[i].multitype)
             IN  IF r.result = "panic" THEN Fatal(w1, "panic in gml_to_ewkb")
                 ELSE Ret([w1 EXCEPT !.st.gmltoewkb = FALSE,
                                     !.st.filtered = IF r.result = "pruned" THEN TRUE ELSE @,
                                     !.tb[ref].value[i] = @ \o r.value,
                                     !.st.gmlcoll = <<>>], "Next")

\* lines 1058-1093: the rest of the End handler, after the row was handled
EndTail(w) ==
    LET st == w.st
        table == T(st.table)
    IN  IF IsSome(st.deferred) /\ path_match(st.path, table.path) /\ Len(st.path) < Len(Unwrap(st.deferred))
        THEN Ret(w, "Apply")
        ELSE IF RFind(st.path, "/") = 0 THEN Fatal(w, "no slash in path; shouldn't happen")
        ELSE LET i == RFind(st.path, "/")
                 tag == SubSeq(st.path, i, Len(st.path))
                 w1 == [w EXCEPT !.st.path = SubSeq(st.path, 1, i - 1)]
             IN  IF st.xmltotext THEN XmlToTextEnd(w1, tag)
                 ELSE IF st.gmltoewkb THEN GmlEnd(w1, tag)
                 ELSE Ret(w1, "Next")

\* DeferredEnd without the pop of the table stack (lines 880-882 left out)
DeferredEnd_NoPop(w) == Ret([w EXCEPT !.st.path = TruncatePath(w.st.path)], "Defer")

\* lines 880-885: an end tag inside the deferred element; the End of the
\* deferred subtable's row element leaves the subtable
DeferredEnd(w) ==
    Ret([(IF path_match(w.st.path, T(w.st.table).path) /\ w.st.tables # <<>> THEN PopTable(w) ELSE w)
            EXCEPT !.st.path = TruncatePath(w.st.path)], "Defer")

\* Event::End, lines 877-1094
process_end(w, e) ==
    LET st == w.st
        table == T(st.table)
    IN  IF IsSome(st.deferred) /\ StartsWith(st.path, Unwrap(st.deferred))
        THEN DeferredEnd(w)
        ELSE LET w1 == ConcatEnd(w) IN
             IF path_match(st.path, table.path)
             THEN LET r == RowEnd(w1) IN IF r.repeat THEN Ret(r.w, "Repeat") ELSE EndTail(r.w)
             ELSE IF st.skipped /\ path_match(st.path, cfg.skip)
             THEN EndTail([w1 EXCEPT !.st.skipped = FALSE, !.st.skipcount = @ + 1])
             ELSE EndTail(w1)

\* process_event, lines 644-1100
\* process_event with Event::Eof falling through to Step::Next (line 1095
\* left out)
process_event_NoDone(e, w) ==
    IF e.type = "Start" THEN process_start(w, e)
    ELSE IF e.type = "Text" THEN process_text(w, e)
    ELSE IF e.type = "End" THEN process_end(w, e)
    ELSE Ret(w, "Next")

process_event(e, w) ==
    IF e.type = "Start" THEN process_start(w, e)
    ELSE IF e.type = "Text" THEN process_text(w, e)
    ELSE IF e.type = "End" THEN process_end(w, e)
    ELSE Ret(w, "Done")

(***************************************************************************)
(* main: the loop over the XML events                                      *)
(***************************************************************************)
\* lines 594-606: replay the deferred events in order; events is what is
\* left of the reversed Vec, the first event first; w1 is the state
\* process_event returned for the first of them
RECURSIVE ApplyLoop(_, _)
ApplyStep(w1, events) ==
    IF w1.fatal # "" THEN w1
    ELSE IF w1.st.step = "Repeat" THEN ApplyLoop(w1, events)
    ELSE IF w1.st.step = "Defer"
    THEN Fatal(w1, "nested subtables that need non-linear processing")
    ELSE IF w1.st.step = "Done" \/ Tail(events) = <<>> THEN w1
    ELSE ApplyLoop(w1, Tail(events))

ApplyLoop(w, events) == ApplyStep(process_event(Head(events), w), events)

\* ApplyEnd without the reset of the path (lines 607-609 left out)
ApplyEnd_KeepPath(w2) == w2

\* lines 607-609: after the replay the path is the parent of the table's path
ApplyEnd(w2) ==
    IF w2.fatal # "" \/ w2.st.step = "Done" THEN w2
    ELSE [w2 EXCEPT !.st.path = TruncatePath(T(w2.st.table).path)]

\* Apply without deferred.reverse() (line 592 left out): the events are
\* popped last first
Apply_NoReverse(w) ==
    IF w.tb[w.st.table].lastid = <<>>
    THEN Fatal(w, "Subtable defer failed to yield a key for parent table")
    ELSE ApplyEnd(ApplyLoop([w EXCEPT !.st.step = "Repeat", !.st.path = Unwrap(w.st.deferred),
                                      !.st.deferred = None, !.deferred = <<>>],
                            [i \in 1..Len(w.deferred) |-> w.deferred[Len(w.deferred) + 1 - i]]))

\* Apply that replays the buffer without draining it (the pops of lines
\* 593 and 603 replaced by an iteration)
Apply_NoDrain(w) ==
    IF w.tb[w.st.table].lastid = <<>>
    THEN Fatal(w, "Subtable defer failed to yield a key for parent table")
    ELSE ApplyEnd(ApplyLoop([w EXCEPT !.st.step = "Repeat", !.st.path = Unwrap(w.st.deferred),
                                      !.st.deferred = None],
                            w.deferred))

\* Step::Apply, lines 584-611
Apply(w) ==
    IF w.tb[w.st.table].lastid = <<>>
    THEN Fatal(w, "Subtable defer failed to yield a key for parent table")
    ELSE ApplyEnd(ApplyLoop([w EXCEPT !.st.step = "Repeat", !.st.path = Unwrap(w.st.deferred),
                                      !.st.deferred = None, !.deferred = <<>>],
                            w.deferred))

\* lines 571-614: the repeat loop for one event read from the reader; w1 is
\* the state process_event returned
RECURSIVE RepeatLoop(_, _)
RepeatStep(w1, event) ==
    IF w1.fatal # "" THEN w1
    ELSE IF w1.st.step = "Repeat" THEN RepeatLoop(w1, event)
    ELSE IF w1.st.step = "Defer" THEN [w1 EXCEPT !.deferred = Append(@, event)]
    ELSE IF w1.st.step = "Apply" THEN Apply(w1)
    ELSE w1

RepeatLoop(w, event) == RepeatStep(process_event(event, w), event)

\* main, lines 569-616: the main loop run over a sequence of events
RECURSIVE RunEvents(_, _)
RunEvents(w, events) ==
    IF events = <<>> \/ w.fatal # "" \/ w.st.step = "Done" THEN w
    ELSE RunEvents(RepeatLoop(w, Head(events)), Tail(events))

World == [st |-> state, tb |-> tabs, deferred |-> deferred, fatal |-> fatal]

Running == fatal = "" /\ state.step # "Done" /\ pos <= Len(read_events(xml))

\* The event reader.read_event_into returns next, line 570
Event == read_events(xml)[pos]

\* One pass of the main loop, lines 569-616, for the event the reader returns
MainLoop ==
    /\ \E w \in {RepeatLoop(World, Event)} :
           /\ state' = w.st
           /\ tabs' = w.tb
           /\ deferred' = w.deferred
           /\ fatal' = w.fatal
    /\ pos' = pos + 1
    /\ UNCHANGED <<cfg, xml>>

\* The reader returns Event::Start (expand_empty_elements turns Event::Empty
\* into a Start and an End)
StartEvent ==
    /\ Running
    /\ Event.type = "Start"
    /\ MainLoop

\* The reader returns Event::Text
TextEvent ==
    /\ Running
    /\ Event.type = "Text"
    /\ MainLoop

\* The reader returns Event::End
EndEvent ==
    /\ Running
    /\ Event.type = "End"
    /\ MainLoop

\* The reader returns Event::Eof
EofEvent ==
    /\ Running
    /\ Event.type = "Eof"
    /\ MainLoop

Next == StartEvent \/ TextEvent \/ EndEvent \/ EofEvent

\* The writer thread of a table receives the next chunk of its channel
\* (write_output, lines 1124-1129); fatalerr! ends the process and with it
\* every thread
WriteOutput ==
    /\ fatal = ""
    /\ \E s \in {DropOrder(cfg.maintable, <<>>)[i] : i \in 1..Len(DropOrder(cfg.maintable, <<>>))} :
           /\ ~Chan(tabs, s).exited
           /\ Chan(tabs, s).chan # <<>>
           /\ tabs' = SetChan(tabs, s, write_output(Chan(tabs, s)))
    /\ UNCHANGED <<cfg, xml, pos, state, deferred, fatal>>

\* main returns after Step::Done and the next table is dropped (Table::drop,
\* lines 112-121); the drop of a table ends with the join of its writer
\* thread, so the tables dropped before it have been dropped and joined
DropTable ==
    /\ fatal = ""
    /\ state.step = "Done"
    /\ \E i \in 1..Len(DropOrder(cfg.maintable, <<>>)) :
           /\ ~Dropped(Chan(tabs, DropOrder(cfg.maintable, <<>>)[i]))
           /\ \A j \in 1..(i - 1) :
                  /\ Dropped(Chan(tabs, DropOrder(cfg.maintable, <<>>)[j]))
                  /\ Chan(tabs, DropOrder(cfg.maintable, <<>>)[j]).exited
           /\ tabs' = SetChan(tabs, DropOrder(cfg.maintable, <<>>)[i],
                              drop(Chan(tabs, DropOrder(cfg.maintable, <<>>)[i]),
                                   TableEmit(SinkTable(cfg.maintable, DropOrder(cfg.maintable, <<>>)[i]), cfg)))
    /\ UNCHANGED <<cfg, xml, pos, state, deferred, fatal>>

\* The transform thread together with the writer threads and the end of main
NextThreads == Next \/ WriteOutput \/ DropTable

\* main, lines 531-567: the state before the first event, for a configuration
\* and a document
InitWith(configs, docs) ==
    /\ cfg \in configs
    /\ xml \in docs
    /\ pos = 1
    /\ state = InitState
    /\ tabs = OpenTables(cfg)
    /\ deferred = <<>>
    /\ fatal = cfg.maintable.err


(***************************************************************************)
(* Documents and configurations                                            *)
(***************************************************************************)
MaxRows == 2
MaxElems == 3

TagR == <<"r">>
TagRow == <<"r", "o", "w">>
TagId == <<"i", "d">>
TagV == <<"v">>
TagItem == <<"i", "t", "e", "m">>

\* "/t1/t2/..." for the tags t1, t2, ...
RECURSIVE PathOf(_)
PathOf(tags) == IF tags = <<>> THEN <<>> ELSE <<"/">> \o Head(tags) \o PathOf(Tail(tags))

\* <tag>text</tag>
Leaf(tag, text) == Elem(tag, <<>>, <<TextNode(text)>>)

\* The sequences of at most n of the given child elements
RECURSIVE KidSeqs(_, _)
KidSeqs(kids, n) ==
    IF n = 0 THEN {<<>>}
    ELSE {<<>>} \cup { <<k>> \o s : k \in kids, s \in KidSeqs(kids, n - 1) }

\* The sequences of at most r rows that hold at most n child elements in all
RECURSIVE RowSeqs(_, _, _)
RowSeqs(kids, r, n) ==
    IF r = 0 THEN {<<>>}
    ELSE {<<>>} \cup UNION { { <<row>> \o rest : rest \in RowSeqs(kids, r - 1, n - Len(row)) } :
                             row \in KidSeqs(kids, n) }

\* <r><row>...</row>...</r>
Doc(rows) == Elem(TagR, <<>>, [i \in 1..Len(rows) |-> Elem(TagRow, <<>>, rows[i])])
Docs(kids, r, n) == { Doc(rows) : rows \in RowSeqs(kids, r, n) }

Rows == xml.kids

\* S1: path=/r/row, cols=[{name:id,path:/id},{name:v,path:/v}]
ColId == [YCol EXCEPT !.name = "id", !.path = Some(PathOf(<<TagId>>))]
ColV == [YCol EXCEPT !.name = "v", !.path = Some(PathOf(<<TagV>>))]
ConfigS1 == Config("t", PathOf(<<TagR, TagRow>>), <<>>, <<ColId, ColV>>)

KidsS1 == {Leaf(TagId, <<"1">>), Leaf(TagId, <<"2">>), Leaf(TagV, <<"a">>)}

InitS1 == InitWith({ConfigS1}, Docs(KidsS1, MaxRows, MaxElems))
SpecS1 == InitS1 /\ [][Next]_vars


(***************************************************************************)
(* What a document means, read off the tree (not the event stream)         *)
(***************************************************************************)
MainTable == <<>>
Done == state.step = "Done"

\* All bytes written for a table: the chunks sent on its channel, in order
SinkText(ref) == Concat(tabs[ref].sent)

\* The non-blank text nodes directly inside an element, as the reader trims them
RECURSIVE NodeTexts(_)
NodeTexts(kids) ==
    IF kids = <<>> THEN <<>>
    ELSE (IF Head(kids).k = "T" /\ trim_text(Head(kids).text) # <<>>
          THEN <<trim_text(Head(kids).text)>> ELSE <<>>) \o NodeTexts(Tail(kids))

\* The values of the attribute key on an element
RECURSIVE AttrValues(_, _)
AttrValues(attrs, key) ==
    IF attrs = <<>> THEN <<>>
    ELSE (IF Head(attrs).key = key THEN <<Head(attrs).value>> ELSE <<>>) \o AttrValues(Tail(attrs), key)

\* The values a row element offers to a column of its table, in document
\* order: the texts (or the values of the column's attribute) of the children
\* whose path is the column's path; base is the path of the row element
RECURSIVE OfferedValues(_, _, _)
OfferedValues(kids, column, base) ==
    IF kids = <<>> THEN <<>>
    ELSE (IF Head(kids).k = "E" /\ base \o PathOf(<<Head(kids).tag>>) = column.path
          THEN IF IsSome(column.attr) THEN AttrValues(Head(kids).attrs, Unwrap(column.attr))
               ELSE NodeTexts(Head(kids).kids)
          ELSE <<>>) \o OfferedValues(Tail(kids), column, base)

\* The aggregate of one or more values (spec 4.2)
Aggregate(aggr, vals) ==
    IF aggr = Some("last") THEN Last(vals)
    ELSE IF aggr = Some("append") THEN JoinWith(vals, <<",">>)
    ELSE Head(vals)

Null == <<"\\", "N">>

\* The final accumulated value a row has for a column (empty if none)
FinalValue(kids, column, base) ==
    IF OfferedValues(kids, column, base) = <<>> THEN <<>>
    ELSE Aggregate(column.aggr, OfferedValues(kids, column, base))

\* The field a row has for a column: the final value, or \N
ExpectedField(kids, column, base) ==
    IF FinalValue(kids, column, base) = <<>> THEN Null ELSE FinalValue(kids, column, base)

\* The line a row has for the columns of its table
ExpectedLine(kids, columns, base) ==
    JoinWith([i \in 1..Len(columns) |-> ExpectedField(kids, columns[i], base)], <<"\t">>) \o <<"\n">>

\* The path of the row elements of the documents, and the main table's columns
RowPath == PathOf(<<TagR, TagRow>>)
MainCols == cfg.maintable.columns

\* The index, among the reader's events, of the End of the j-th row
RECURSIVE RowEndIndex(_)
RowEndIndex(j) == IF j = 0 THEN 1 ELSE RowEndIndex(j - 1) + Len(Events(Rows[j]))

\* The number of rows whose End event has been processed
EndedRows == Cardinality({ j \in 1..Len(Rows) : RowEndIndex(j) < pos })

(***************************************************************************)
(* C1                                                                      *)
(***************************************************************************)
DocS1 == Doc(<< <<Leaf(TagId, <<"1">>), Leaf(TagV, <<"a">>)>>, <<Leaf(TagId, <<"2">>)>> >>)
OutS1 == <<"1", "\t", "a", "\n", "2", "\t", "\\", "N", "\n">>

\* C1: with the configuration S1 (no hidden, subtable, filtered or normalized
\* column), the End of each row element sends exactly one line to the main
\* sink: the fields of the columns in configuration order separated by TAB,
\* \N for a column that received nothing, then LF; the input of S1 yields
\* exactly "1<TAB>a<LF>2<TAB>\N<LF>".
C1_RowLines ==
    /\ Len(tabs[MainTable].sent) = EndedRows
    /\ \A j \in 1..EndedRows : tabs[MainTable].sent[j] = ExpectedLine(Rows[j].kids, MainCols, RowPath)
    /\ (xml = DocS1 /\ Done) => SinkText(MainTable) = OutS1

C1_Witness == xml = DocS1 /\ Done /\ SinkText(MainTable) = OutS1


(***************************************************************************)
(* C2                                                                      *)
(***************************************************************************)
TagJunk == <<"j", "u", "n", "k">>

\* skip: junk, with the columns of S1
ConfigSkip == Config("t", PathOf(<<TagR, TagRow>>), TagJunk, <<ColId, ColV>>)

\* incl: ^k$ on the column v
ColVIncl == [ColV EXCEPT !.incl = Some(ReExact(<<"k">>))]
ConfigIncl == Config("t", PathOf(<<TagR, TagRow>>), <<>>, <<ColId, ColVIncl>>)

KidsSkip == {Leaf(TagId, <<"1">>), Leaf(TagV, <<"k">>), Leaf(TagV, <<"s">>), Elem(TagJunk, <<>>, <<>>)}

InitCount == InitWith({ConfigS1, ConfigSkip, ConfigIncl}, Docs(KidsSkip, MaxRows, MaxElems))
SpecCount == InitCount /\ [][Next]_vars

\* Rows written to the main sink: one chunk is sent per row
RowsWritten == Len(tabs[MainTable].sent)

\* C2: when the run is over, the rows written to the main sink plus
\* filtercount plus skipcount equal fullcount.
C2_RowAccounting == Done => RowsWritten + state.filtercount + state.skipcount = state.fullcount


(***************************************************************************)
(* C9                                                                      *)
(***************************************************************************)
\* excl: ^s$ on the column v
ColVExcl == [ColV EXCEPT !.excl = Some(ReExact(<<"s">>))]
ConfigExcl == Config("t", PathOf(<<TagR, TagRow>>), <<>>, <<ColId, ColVExcl>>)

\* incl: k (unanchored) on the column v, which appends its values
ColVInclAppend == [ColV EXCEPT !.incl = Some(ReInfix(<<"k">>)), !.aggr = Some("append")]
ConfigInclAppend == Config("t", PathOf(<<TagR, TagRow>>), <<>>, <<ColId, ColVInclAppend>>)

KidsFilter == {Leaf(TagId, <<"1">>), Leaf(TagV, <<"k">>), Leaf(TagV, <<"s">>)}

InitFilter == InitWith({ConfigIncl, ConfigExcl, ConfigInclAppend}, Docs(KidsFilter, MaxRows, MaxElems))
SpecFilter == InitFilter /\ [][Next]_vars

\* A row is filtered out iff some column has an include pattern its final
\* value does not match, or an exclude pattern its final value matches
FilteredOut(kids, columns, base) ==
    \E i \in 1..Len(columns) :
        \/ /\ IsSome(columns[i].include)
           /\ ~is_match(Unwrap(columns[i].include), FinalValue(kids, columns[i], base))
        \/ /\ IsSome(columns[i].exclude)
           /\ is_match(Unwrap(columns[i].exclude), FinalValue(kids, columns[i], base))

\* The lines of those of the first n rows that are not filtered out
RECURSIVE KeptLines(_)
KeptLines(n) ==
    IF n = 0 THEN <<>>
    ELSE KeptLines(n - 1) \o
         (IF FilteredOut(Rows[n].kids, MainCols, RowPath) THEN <<>>
          ELSE <<ExpectedLine(Rows[n].kids, MainCols, RowPath)>>)

\* The End of a row was the last event processed
AtRowEnd == \E j \in 1..Len(Rows) : pos = RowEndIndex(j) + 1

\* C9: a row of the main table is filtered out exactly when a column's final
\* accumulated value fails its include pattern or matches its exclude
\* pattern; each filtered row adds one to filtercount and writes nothing; the
\* rows that are not filtered are written in order (processing continues with
\* the next row), and after the End of a row its accumulators are empty.
C9_Filtering ==
    /\ tabs[MainTable].sent = KeptLines(EndedRows)
    /\ state.filtercount = Cardinality({ j \in 1..EndedRows : FilteredOut(Rows[j].kids, MainCols, RowPath) })
    /\ AtRowEnd => /\ \A i \in DOMAIN tabs[MainTable].value : tabs[MainTable].value[i] = <<>>
                   /\ ~state.filtered

\* A row that was filtered out is followed by a row that was written
C9_Witness ==
    /\ Done
    /\ Len(Rows) = 2
    /\ FilteredOut(Rows[1].kids, MainCols, RowPath)
    /\ ~FilteredOut(Rows[2].kids, MainCols, RowPath)
    /\ state.filtercount = 1
    /\ RowsWritten = 1


(***************************************************************************)
(* C8                                                                      *)
(***************************************************************************)
TagTag == <<"t", "a", "g">>
KeyK == <<"k">>

\* name: tag, path: /tag with an aggr and, for an attribute column, attr: k
ColTag(aggr, attr) ==
    [YCol EXCEPT !.name = "tag", !.path = Some(PathOf(<<TagTag>>)), !.aggr = aggr, !.attr = attr]

ConfigsAggr ==
    { Config("t", RowPath, <<>>, <<ColId, ColTag(aggr, attr)>>) :
        aggr \in {None, Some("first"), Some("last"), Some("append")}, attr \in {None, Some(KeyK)} }

\* <tag k="p">x</tag> and <tag k="q">y</tag>
ElemX == Elem(TagTag, <<Attr(KeyK, <<"p">>)>>, <<TextNode(<<"x">>)>>)
ElemY == Elem(TagTag, <<Attr(KeyK, <<"q">>)>>, <<TextNode(<<"y">>)>>)
KidsAggr == {ElemX, ElemY}

InitAggr == InitWith(ConfigsAggr, Docs(KidsAggr, MaxRows, MaxElems))
SpecAggr == InitAggr /\ [][Next]_vars

\* The index, among the reader's events, of the Start of the j-th row
RowStartIndex(j) == RowEndIndex(j - 1) + 1

\* The index of the End of the n-th child of the j-th row (of the Start of the
\* row for n = 0)
RECURSIVE KidEndIndex(_, _)
KidEndIndex(j, n) ==
    IF n = 0 THEN RowStartIndex(j) ELSE KidEndIndex(j, n - 1) + Len(Events(Rows[j].kids[n]))

\* The first n children of the j-th row have been processed, and no more
AfterKid(j, n) == pos = KidEndIndex(j, n) + 1

\* C8: after the n-th child of a row, the accumulator of every column holds
\* the aggregate of the values the first n children offered it: with no aggr
\* or aggr first the first value, with last the latest value, with append all
\* values joined by "," in arrival order, for element-text and for attribute
\* columns; the line written at the End of the row carries that aggregate, and
\* the input of S2 gives the field x,y.
C8_Aggregation ==
    /\ \A j \in 1..Len(Rows) : \A n \in 0..Len(Rows[j].kids) :
          AfterKid(j, n) =>
              \A i \in 1..Len(MainCols) :
                  tabs[MainTable].value[i] = FinalValue(SubSeq(Rows[j].kids, 1, n), MainCols[i], RowPath)
    /\ \A j \in 1..EndedRows : tabs[MainTable].sent[j] = ExpectedLine(Rows[j].kids, MainCols, RowPath)
    /\ ( /\ Done
         /\ MainCols[2].aggr = Some("append") /\ MainCols[2].attr = None
         /\ Len(Rows) = 1
         /\ Rows[1].kids = <<ElemX, ElemY>> )
       => SinkText(MainTable) = <<"\\", "N", "\t", "x", ",", "y", "\n">>

\* The input of S2 under aggr: append, on the element text
C8_Witness ==
    /\ Done
    /\ MainCols[2].aggr = Some("append") /\ MainCols[2].attr = None
    /\ Len(Rows) = 1
    /\ Rows[1].kids = <<ElemX, ElemY>>
    /\ SinkText(MainTable) = <<"\\", "N", "\t", "x", ",", "y", "\n">>


(***************************************************************************)
(* C3                                                                      *)
(***************************************************************************)
\* S4: {name: item, path: /item, file: items.tsv, cols: [{name: v, path: /v}]}
ColItem ==
    [YCol EXCEPT !.name = "item", !.path = Some(PathOf(<<TagItem>>)),
                 !.file = Some("items.tsv"), !.cols = Some(<<ColV>>)]
ConfigS4 == Config("t", RowPath, <<>>, <<ColId, ColItem>>)

\* A single-column subtable: {name: tag, path: /tag, file: tags.tsv}
ColTagOneToMany ==
    [YCol EXCEPT !.name = "tag", !.path = Some(PathOf(<<TagTag>>)), !.file = Some("tags.tsv")]
ConfigOneToMany == Config("t", RowPath, <<>>, <<ColId, ColTagOneToMany>>)

\* A crosslink table: {name: tag, path: /tag, file: link.tsv, norm: tags.tsv}
ColTagManyToMany == [ColTagOneToMany EXCEPT !.file = Some("link.tsv"), !.norm = Some("tags.tsv")]
ConfigManyToMany == Config("t", RowPath, <<>>, <<ColId, ColTagManyToMany>>)

Item(text) == Elem(TagItem, <<>>, <<Leaf(TagV, text)>>)

KidsS4 == {Leaf(TagId, <<"7">>), Item(<<"a">>), Item(<<"b">>)}
KidsKeys == {Leaf(TagId, <<"7">>), Leaf(TagId, <<"8">>), Leaf(TagTag, <<"a">>)}
KidsTags == {Leaf(TagId, <<"7">>), Leaf(TagTag, <<"a">>), Leaf(TagTag, <<"b">>)}

InitSub ==
    \/ InitWith({ConfigS4}, Docs(KidsS4, MaxRows, MaxElems))
    \/ InitWith({ConfigOneToMany}, Docs(KidsKeys, MaxRows, MaxElems))
    \/ InitWith({ConfigManyToMany}, Docs(KidsTags, MaxRows, MaxElems))
SpecSub == InitSub /\ [][Next]_vars

DocS4 == Doc(<< <<Leaf(TagId, <<"7">>), Item(<<"a">>), Item(<<"b">>)>> >>)

\* The subtable column of the main table (the second column of the
\* configurations here), its table and the reference that addresses it
SubRef == <<2>>
SubTable == Unwrap(MainCols[2].subtable)

\* The column-0 value of the j-th row
Key(j) == FinalValue(Rows[j].kids, MainCols[1], RowPath)

\* The child elements of a row that are rows of the subtable
RECURSIVE SubElems(_)
SubElems(kids) ==
    IF kids = <<>> THEN <<>>
    ELSE (IF Head(kids).k = "E" /\ RowPath \o PathOf(<<Head(kids).tag>>) = SubTable.path
          THEN <<Head(kids)>> ELSE <<>>) \o SubElems(Tail(kids))

\* The final value a subtable row has for a column of the subtable: a column
\* at the subtable's own path takes the text of the row element itself
SubValue(elem, column) ==
    IF column.path = SubTable.path
    THEN (IF NodeTexts(elem.kids) = <<>> THEN <<>> ELSE Aggregate(column.aggr, NodeTexts(elem.kids)))
    ELSE FinalValue(elem.kids, column, SubTable.path)

\* The subtable's own columns of a subtable row, as fields separated by TAB
OwnColumns(elem) ==
    JoinWith([i \in 1..Len(SubTable.columns) |->
                 IF SubValue(elem, SubTable.columns[i]) = <<>> THEN Null
                 ELSE SubValue(elem, SubTable.columns[i])], <<"\t">>)

\* All subtable row elements of the first n rows, in document order
RECURSIVE SubElemsUpTo(_)
SubElemsUpTo(n) == IF n = 0 THEN <<>> ELSE SubElemsUpTo(n - 1) \o SubElems(Rows[n].kids)

\* The id a domain gives the last of a sequence of keys: ids are handed out
\* 1, 2, ... in the order in which distinct keys first occur
DomainId(keys) ==
    LET first == CHOOSE i \in 1..Len(keys) :
                     keys[i] = Last(keys) /\ \A h \in 1..(i - 1) : keys[h] # Last(keys)
    IN  Cardinality({ keys[i] : i \in 1..first })

\* The field that follows the foreign key in the k-th subtable row of row j:
\* the subtable's own columns, or for a crosslink table the id the domain
\* gives the row
LinkField(j, k) ==
    LET elems == SubElemsUpTo(j - 1) \o SubSeq(SubElems(Rows[j].kids), 1, k)
    IN  to_string(DomainId([i \in 1..Len(elems) |-> SubValue(elems[i], SubTable.columns[1])]))

\* The lines the subtable has for the j-th row; literal says that every
\* subtable writes its own columns after the key
SubLines(j, literal) ==
    IF Key(j) = <<>> THEN <<>>
    ELSE [k \in 1..Len(SubElems(Rows[j].kids)) |->
             Key(j) \o <<"\t">> \o
             (IF literal \/ SubTable.cardinality # "ManyToMany"
              THEN OwnColumns(SubElems(Rows[j].kids)[k])
              ELSE LinkField(j, k)) \o <<"\n">>]

RECURSIVE SubLinesUpTo(_, _)
SubLinesUpTo(n, literal) ==
    IF n = 0 THEN <<>> ELSE SubLinesUpTo(n - 1, literal) \o SubLines(n, literal)

IsPrefix(s, t) == Len(s) <= Len(t) /\ SubSeq(t, 1, Len(s)) = s

InitDefer == InitWith({ConfigS4}, Docs(KidsS4, MaxRows, MaxElems))
SpecDefer == InitDefer /\ [][Next]_vars

DocS5 == Doc(<< <<Item(<<"a">>), Item(<<"b">>), Leaf(TagId, <<"7">>)>> >>)

\* A child of a row that feeds the key column (column 0 of the main table)
IsKeyElem(kid) == kid.k = "E" /\ RowPath \o PathOf(<<kid.tag>>) = MainCols[1].path

RECURSIVE Select(_, _)
Select(kids, key) ==
    IF kids = <<>> THEN <<>>
    ELSE (IF IsKeyElem(Head(kids)) = key THEN <<Head(kids)>> ELSE <<>>) \o Select(Tail(kids), key)

\* The document with the key elements of every row moved to the front
KeyFirst(doc) ==
    Doc([j \in 1..Len(doc.kids) |-> Select(doc.kids[j].kids, TRUE) \o Select(doc.kids[j].kids, FALSE)])

\* The state in which the program ends for a document
FinalWorld(doc) ==
    RunEvents([st |-> InitState,
               tb |-> OpenTables(cfg),
               deferred |-> <<>>, fatal |-> cfg.maintable.err],
              read_events(doc))

\* Among the first n children of a row a subtable element comes before every
\* key element: the program has begun to defer
DeferStarted(kids, n) ==
    \E i \in 1..n : /\ SubElems(<<kids[i]>>) # <<>>
                    /\ \A h \in 1..(i - 1) : ~(IsKeyElem(kids[h]) /\ NodeTexts(kids[h].kids) # <<>>)

\* The events of the subtable elements among the first n children of a row
RECURSIVE SubEvents(_, _)
SubEvents(kids, n) ==
    IF n = 0 THEN <<>>
    ELSE SubEvents(kids, n - 1) \o (IF SubElems(<<kids[n]>>) # <<>> THEN Events(kids[n]) ELSE <<>>)

\* C4: when a subtable element precedes the key of its row, the events of the
\* subtable elements of the row are buffered and nothing is written for them
\* until the End of the row; the run fails only for a row that has subtable
\* elements and no key at all; when the run is over the subtable sink holds
\* what the program writes for the document whose rows have their key element
\* first: one row per subtable element, each with the key of its parent row,
\* in document order (S5: 7<TAB>a then 7<TAB>b).
C4_DeferredReplay ==
    /\ \A j \in 1..Len(Rows) : \A n \in 0..Len(Rows[j].kids) :
          (AfterKid(j, n) /\ DeferStarted(Rows[j].kids, n)) =>
              /\ deferred = SubEvents(Rows[j].kids, n)
              /\ tabs[SubRef].sent = SubLinesUpTo(j - 1, FALSE)
    /\ fatal # "" => \E j \in 1..Len(Rows) : Key(j) = <<>> /\ SubElems(Rows[j].kids) # <<>>
    /\ Done => /\ tabs[SubRef].sent = FinalWorld(KeyFirst(xml)).tb[SubRef].sent
               /\ tabs[SubRef].sent = SubLinesUpTo(Len(Rows), FALSE)
               /\ deferred = <<>>
    /\ (xml = DocS5 /\ Done) => SinkText(SubRef) = <<"7", "\t", "a", "\n", "7", "\t", "b", "\n">>

\* S5: the two items came before the key and were written with it
C4_Witness ==
    /\ xml = DocS5 /\ Done
    /\ SinkText(SubRef) = <<"7", "\t", "a", "\n", "7", "\t", "b", "\n">>
    /\ KeyFirst(xml) # xml


(***************************************************************************)
(* C5                                                                      *)
(***************************************************************************)
MaxCats == 4

TagCat == <<"c", "a", "t">>
TagName == <<"n", "a", "m", "e">>

\* {name: id, seri: true} and {name: name, path: /name}
ColSerial == [YCol EXCEPT !.name = "id", !.seri = TRUE]
ColName == [YCol EXCEPT !.name = "name", !.path = Some(PathOf(<<TagName>>))]

\* A normalized subtable: {name: cat, path: /cat, norm: cats.tsv, cols: [...]}
ColCat(cols) ==
    [YCol EXCEPT !.name = "cat", !.path = Some(PathOf(<<TagCat>>)),
                 !.norm = Some("cats.tsv"), !.cols = Some(cols)]
ConfigNorm == Config("t", RowPath, <<>>, <<ColId, ColCat(<<ColName>>)>>)
ConfigNormSerial == Config("t", RowPath, <<>>, <<ColId, ColCat(<<ColSerial, ColName>>)>>)

Cat(name) == Elem(TagCat, <<>>, <<Leaf(TagName, name)>>)

\* The documents of up to n rows that each hold one cat named A or B
CatDocs(n) ==
    UNION { { Doc([j \in 1..k |-> <<Cat(names[j])>>]) : names \in [1..k -> {<<"A">>, <<"B">>}] } :
            k \in 0..n }

InitNorm == InitWith({ConfigNorm, ConfigNormSerial}, CatDocs(MaxCats))
SpecNorm == InitNorm /\ [][Next]_vars

\* The key of the child row of the j-th row: the name of its cat
CatName(j) == Rows[j].kids[1].kids[1].kids[1].text

\* The id written into the parent column of the j-th row: the second field
\* of the j-th line of the main sink
ParentId(j) == Split(Pop(tabs[MainTable].sent[j]), "\t")[2]

\* The lookup rows written for a key: the lines of the subtable's sink that
\* end with the key as their last field
LookupRows(name) ==
    { k \in 1..Len(tabs[SubRef].sent) : Last(Split(Pop(tabs[SubRef].sent[k]), "\t")) = name }

\* C5: when the run is over, any two rows whose child rows have the same key
\* carry the same id in the parent column, and the lookup row of every key
\* that occurs was written exactly once.
C5_DomainIdempotence ==
    Done => /\ Len(tabs[MainTable].sent) = Len(Rows)
            /\ \A i, j \in 1..Len(Rows) : CatName(i) = CatName(j) => ParentId(i) = ParentId(j)
            /\ \A j \in 1..Len(Rows) : Cardinality(LookupRows(CatName(j))) = 1


(***************************************************************************)
(* C6                                                                      *)
(***************************************************************************)
\* A main table with a serial column, without and with an include filter
ConfigSerial == Config("t", RowPath, <<>>, <<ColSerial, ColV>>)
ConfigSerialIncl == Config("t", RowPath, <<>>, <<ColSerial, ColVIncl>>)

KidsSerial == {Leaf(TagV, <<"k">>), Leaf(TagV, <<"s">>)}

InitSerial ==
    \/ InitWith({ConfigSerial, ConfigSerialIncl}, Docs(KidsSerial, MaxRows, MaxElems))
    \/ InitWith({ConfigNormSerial}, CatDocs(MaxCats))
SpecSerial == InitSerial /\ [][Next]_vars

\* The table that has the serial column: the main table, or the normalized
\* subtable of ConfigNormSerial
SerialRef == IF MainCols[1].serial THEN MainTable ELSE SubRef

\* The values of the serial column in the rows emitted for its table, in
\* emission order: the first field of every line
SerialValues ==
    [k \in 1..Len(tabs[SerialRef].sent) |->
        DecimalValue(Split(Pop(tabs[SerialRef].sent[k]), "\t")[1])]

\* The number of row elements of the serial column's table that have ended:
\* rows of the main table, or the cats (every row holds exactly one)
EndedElems ==
    IF SerialRef = MainTable THEN EndedRows
    ELSE Cardinality({ j \in 1..Len(Rows) : KidEndIndex(j, 1) < pos })

\* A row element is emitted unless the filter rejects it or its key is
\* already in the domain
Emitted(j) ==
    IF SerialRef = MainTable THEN ~FilteredOut(Rows[j].kids, MainCols, RowPath)
    ELSE \A h \in 1..(j - 1) : CatName(h) # CatName(j)

RECURSIVE EmittedOrdinals(_)
EmittedOrdinals(n) ==
    IF n = 0 THEN <<>> ELSE EmittedOrdinals(n - 1) \o (IF Emitted(n) THEN <<n>> ELSE <<>>)

\* C6 as stated: the serial values in the emitted rows are 1, 2, 3, ...
\* without gaps.
C6_SerialGapFree == SerialValues = [k \in 1..Len(tabs[SerialRef].sent) |-> k]

\* C6 amended: the serial values in the emitted rows are strictly increasing
\* positive integers in emission order; every row element of the table takes
\* the next value 1, 2, 3, ... when it starts, so an emitted row carries the
\* ordinal of its row element, and a row that is filtered out or deduplicated
\* by the domain leaves a gap.
C6_SerialIncreasing ==
    /\ \A k \in 1..Len(SerialValues) : SerialValues[k] >= 1
    /\ \A k \in 1..(Len(SerialValues) - 1) : SerialValues[k] < SerialValues[k + 1]
    /\ SerialValues = EmittedOrdinals(EndedElems)

\* A filtered row left a gap: the only emitted row carries the value 2
C6_Witness ==
    /\ Done
    /\ SerialRef = MainTable
    /\ Len(Rows) = 2
    /\ FilteredOut(Rows[1].kids, MainCols, RowPath)
    /\ SerialValues = <<2>>


(***************************************************************************)
(* C7                                                                      *)
(***************************************************************************)
MaxText == 3

Alphabet == {"\\", "\t", "\r", "\n", "n", "r", "t"}

\* The texts of up to n characters over the alphabet
Texts(n) == UNION { [1..k -> Alphabet] : k \in 0..n }

\* One column fed from the element text: trim false, no find or replace
ConfigV == Config("t", RowPath, <<>>, <<ColV>>)

\* <r><row><v>text</v></row></r>
TextDocs(n) == { Doc(<< <<Leaf(TagV, t)>> >>) : t \in Texts(n) }

InitEscape == InitWith({ConfigV}, TextDocs(MaxText))
SpecEscape == InitEscape /\ [][Next]_vars

\* The text node of the document, and the field emitted for it
OriginalText == Rows[1].kids[1].kids[1].text
EmittedField == Pop(tabs[MainTable].sent[1])

\* Decoding a field left to right: \\ to backslash, \n to LF, \r to CR,
\* \t to TAB
RECURSIVE Decode(_)
Decode(s) ==
    IF s = <<>> THEN <<>>
    ELSE IF Head(s) = "\\" /\ Len(s) >= 2 /\ s[2] \in {"\\", "n", "r", "t"}
         THEN <<CASE s[2] = "\\" -> "\\" [] s[2] = "n" -> "\n" [] s[2] = "r" -> "\r" [] OTHER -> "\t">>
              \o Decode(SubSeq(s, 3, Len(s)))
         ELSE <<Head(s)>> \o Decode(Tail(s))

\* C7 as stated: decoding the emitted field yields the original text, for
\* every (non-empty) text over the alphabet.
C7_RoundTripVerbatim ==
    (Done /\ OriginalText # <<>>) =>
        /\ Len(tabs[MainTable].sent) = 1
        /\ Decode(EmittedField) = OriginalText

\* C7 amended: the reader trims the whitespace (space, TAB, CR, LF) at both
\* ends of a text node before the column sees it; for every text that is not
\* all whitespace, decoding the emitted field yields the text without the
\* whitespace at its ends, hence the original text when it neither begins
\* nor ends with whitespace; a text that is all whitespace gives \N.
C7_RoundTripTrimmed ==
    Done =>
        /\ Len(tabs[MainTable].sent) = 1
        /\ IF trim_text(OriginalText) = <<>> THEN EmittedField = Null
           ELSE Decode(EmittedField) = trim_text(OriginalText)
        /\ (/\ OriginalText # <<>>
            /\ ~IsWhitespace(Head(OriginalText))
            /\ ~IsWhitespace(Last(OriginalText))) => Decode(EmittedField) = OriginalText

\* A text with a backslash, a line feed and a letter n comes back verbatim
C7_Witness ==
    /\ Done
    /\ OriginalText = <<"\\", "\n", "n">>
    /\ EmittedField = <<"\\", "\\", "\\", "n", "n">>
    /\ Decode(EmittedField) = OriginalText


(***************************************************************************)
(* C10                                                                     *)
(***************************************************************************)
\* skip: junk together with the include filter on v
ConfigSkipIncl == Config("t", RowPath, TagJunk, <<ColId, ColVIncl>>)

\* <v>k</v> and <junk><v>k</v></junk>: a row without v is filtered out
KidsJunk == {Leaf(TagV, <<"k">>), Elem(TagJunk, <<>>, <<Leaf(TagV, <<"k">>)>>)}

\* <id>7</id> and <item><v>a</v></item>
KidsItem == {Leaf(TagId, <<"7">>), Item(<<"a">>)}

\* <id>7</id> and <tag>a</tag>
KidsLink == {Leaf(TagId, <<"7">>), Leaf(TagTag, <<"a">>)}

\* Runs that filter rows and skip subtrees, enter OneToMany, ManyToMany and
\* ManyToOne subtables, and defer and replay events
InitPath ==
    \/ InitWith({ConfigSkipIncl}, Docs(KidsJunk, MaxRows, MaxElems))
    \/ InitWith({ConfigS4}, Docs(KidsItem, MaxRows, MaxElems))
    \/ InitWith({ConfigManyToMany}, Docs(KidsLink, MaxRows, MaxElems))
    \/ InitWith({ConfigNorm, ConfigNormSerial}, CatDocs(MaxRows))
SpecPath == InitPath /\ [][Next]_vars

\* The path of the open elements after one more event: a Start appends "/"
\* and its name, an End removes what its matching Start appended
OpenStep(open, e) ==
    IF e.type = "Start" THEN open \o <<"/">> \o e.name
    ELSE IF e.type = "End" THEN SubSeq(open, 1, Len(open) - Len(e.name) - 1)
    ELSE open

\* The path of the elements that are open after the first n events of the
\* document
RECURSIVE OpenPath(_)
OpenPath(n) ==
    IF n = 0 THEN <<>> ELSE OpenStep(OpenPath(n - 1), read_events(xml)[n])

C10_WitnessSkipped ==
    /\ Done
    /\ cfg = ConfigSkipIncl
    /\ state.skipcount = 1
    /\ state.filtercount = 1
    /\ state.path = <<>>

(***************************************************************************)
(* C11 and C12                                                             *)
(***************************************************************************)
\* The keywords of the 'emit' text of the configurations
EmitSets ==
    { {}, {"copy_from"}, {"start_trans", "truncate"}, {"drop_table", "create_table"}, EmitKeywords }

\* A single normalized column: {name: v, path: /v, norm: v.tsv}
ColVNorm == [ColV EXCEPT !.norm = Some("v.tsv")]
ConfigVNorm == Config("t", RowPath, <<>>, <<ColId, ColVNorm>>)

\* One row with a key and two subtable elements, and two rows
DocTags == Doc(<< <<Leaf(TagId, <<"7">>), Leaf(TagTag, <<"a">>), Leaf(TagTag, <<"b">>)>> >>)
DocCats == Doc(<< <<Cat(<<"A">>)>>, <<Cat(<<"B">>)>> >>)
DocVs == Doc(<< <<Leaf(TagId, <<"1">>), Leaf(TagV, <<"k">>)>>, <<Leaf(TagId, <<"2">>), Leaf(TagV, <<"s">>)>> >>)

\* A OneToMany subtable, a crosslink table with its domain, a ManyToOne
\* subtable (whose domain has no file) and a column with a domain, with every
\* emit text; the writer threads run alongside the transform thread
InitSinks ==
    \/ InitWith({ WithEmit(ConfigS4, k) : k \in EmitSets }, {DocS4, DocS5})
    \/ InitWith({ WithEmit(ConfigManyToMany, k) : k \in EmitSets }, {DocTags})
    \/ InitWith({ WithEmit(ConfigNormSerial, k) : k \in EmitSets }, {DocCats})
    \/ InitWith({ WithEmit(ConfigVNorm, k) : k \in EmitSets }, {DocVs})
SpecSinks == InitSinks /\ [][NextThreads]_vars

\* The tables that own a writer thread
Sinks == { DropOrder(cfg.maintable, <<>>)[i] : i \in 1..Len(DropOrder(cfg.maintable, <<>>)) }

\* main has returned: every table is dropped and every writer thread joined
Exited == Done /\ \A s \in Sinks : Dropped(Chan(tabs, s)) /\ Chan(tabs, s).exited

\* The table s is the main table or has an output file
HasOutput(s) ==
    \/ s = <<MainTable, 0>>
    \/ IsSome(SinkTable(cfg.maintable, s).file)

\* The fkey text of the table s
SinkFkey(s) == IF s[2] = 0 THEN FkeyOf(cfg.maintable, s[1]) ELSE None

\* The place of an element of a sink in the order START TRANSACTION, DROP
\* TABLE, CREATE TABLE, TRUNCATE, COPY, data, \. and COMMIT
Rank(e, s) ==
    CASE e = StartLine -> 1
      [] e = DropLine(SinkTable(cfg.maintable, s)) -> 2
      [] e = CreateLine(SinkTable(cfg.maintable, s), SinkFkey(s)) -> 3
      [] e = TruncateLine(SinkTable(cfg.maintable, s)) -> 4
      [] e = CopyLine(SinkTable(cfg.maintable, s), SinkFkey(s)) -> 5
      [] e = "\\.\n" -> 7
      [] e = "COMMIT;\n" -> 8
      [] OTHER -> 6

\* The fragments the emit text enables
EnabledRanks ==
    (IF cfg.emit_starttransaction THEN {1} ELSE {})
    \cup (IF cfg.emit_droptable THEN {2} ELSE {})
    \cup (IF cfg.emit_createtable THEN {3} ELSE {})
    \cup (IF cfg.emit_truncate THEN {4} ELSE {})
    \cup (IF cfg.emit_copyfrom THEN {5} ELSE {})

\* The ranks of the elements written to the sink of s
SinkRanks(s) == [i \in 1..Len(Chan(tabs, s).sink) |-> Rank(Chan(tabs, s).sink[i], s)]

\* C11: for each table that has an output file or is the main table, the
\* sink holds only enabled preamble fragments, each at most once and in the
\* order START TRANSACTION, DROP TABLE, CREATE TABLE, TRUNCATE, COPY, and all
\* of them before the first byte of a data row; \. comes after the last data
\* row and before COMMIT; and when main has returned, \. is in the sink iff
\* the COPY line is, and COMMIT iff the START TRANSACTION line is.
C11_PreambleOrder ==
    \A s \in Sinks :
        /\ \A i, j \in 1..Len(SinkRanks(s)) :
              i < j => /\ SinkRanks(s)[i] <= SinkRanks(s)[j]
                       /\ SinkRanks(s)[i] = SinkRanks(s)[j] => SinkRanks(s)[i] = 6
        /\ HasOutput(s) =>
              \A i \in 1..Len(SinkRanks(s)) :
                  /\ SinkRanks(s)[i] <= 5 => SinkRanks(s)[i] \in EnabledRanks
                  /\ SinkRanks(s)[i] >= 6 =>
                        \A r \in EnabledRanks : \E j \in 1..(i - 1) : SinkRanks(s)[j] = r
        /\ Exited =>
              /\ (\E i \in 1..Len(SinkRanks(s)) : SinkRanks(s)[i] = 7)
                    <=> (\E i \in 1..Len(SinkRanks(s)) : SinkRanks(s)[i] = 5)
              /\ (\E i \in 1..Len(SinkRanks(s)) : SinkRanks(s)[i] = 8)
                    <=> (\E i \in 1..Len(SinkRanks(s)) : SinkRanks(s)[i] = 1)
              /\ HasOutput(s) => \A r \in EnabledRanks : \E j \in 1..Len(SinkRanks(s)) : SinkRanks(s)[j] = r

\* With every keyword in the emit text, main has returned and the sink of the
\* items table holds the five fragments, two rows, \. and COMMIT
C11_Witness ==
    /\ Exited
    /\ cfg = WithEmit(ConfigS4, EmitKeywords)
    /\ xml = DocS4
    /\ tabs[SubRef].sink =
           << "START TRANSACTION;\n",
              "DROP TABLE IF EXISTS item;\n",
              "CREATE TABLE IF NOT EXISTS item (t text, v text);\n",
              "TRUNCATE item;\n",
              "COPY item (t, v) FROM stdin;\n",
              "7", "\t", "a", "\n", "7", "\t", "b", "\n",
              "\\.\n", "COMMIT;\n" >>

\* The non-empty chunks among those sent
NonEmpty(chunk) == Len(chunk) > 0

\* C12: for each table, at every moment and under every interleaving of the
\* transform thread and the writer threads, the bytes written to the sink
\* followed by the chunks still in the channel are the non-empty chunks sent
\* on the channel, in send order; and when main has returned nothing is left
\* in a channel, so the sink holds all of them.
C12_ChannelFifo ==
    \A s \in Sinks :
        /\ Chan(tabs, s).sink \o Concat(Chan(tabs, s).chan) = Concat(SelectSeq(Chan(tabs, s).sent, NonEmpty))
        /\ Exited => /\ Chan(tabs, s).chan = <<>>
                     /\ Chan(tabs, s).sink = Concat(SelectSeq(Chan(tabs, s).sent, NonEmpty))

\* The writer thread of the items table has written the first row while the
\* second waits in the channel, and the main table's row is written
C12_Witness ==
    /\ cfg = WithEmit(ConfigS4, {})
    /\ xml = DocS4
    /\ tabs[SubRef].sent = << <<"7", "\t", "a", "\n">>, <<"7", "\t", "b", "\n">> >>
    /\ tabs[SubRef].sink = <<"7", "\t", "a", "\n">>
    /\ tabs[SubRef].chan = << <<"7", "\t", "b", "\n">> >>
    /\ tabs[MainTable].sink = <<"7", "\n">>

(***************************************************************************)
(* C13: configurations that add_table rejects                              *)
(***************************************************************************)
\* {name: v, path: /v, conv: upper}
ConfigConvUnknown == Config("t", RowPath, <<>>, <<ColId, [ColV EXCEPT !.conv = Some("upper")]>>)
\* incl and excl next to conv on one column
ConfigInclConv == Config("t", RowPath, <<>>, <<ColId, [ColVIncl EXCEPT !.conv = Some("xml-to-text")]>>)
ConfigExclConv == Config("t", RowPath, <<>>, <<ColId, [ColVExcl EXCEPT !.conv = Some("concat-text")]>>)
\* A subtable as the first column: OneToMany with and without cols,
\* ManyToMany with and without cols, ManyToOne
ConfigFirstOneToMany == Config("t", RowPath, <<>>, <<ColItem, ColId>>)
ConfigFirstOneToManyNoCols == Config("t", RowPath, <<>>, <<ColTagOneToMany, ColId>>)
ConfigFirstManyToMany ==
    Config("t", RowPath, <<>>, <<[ColItem EXCEPT !.file = Some("link.tsv"), !.norm = Some("items.tsv")], ColId>>)
ConfigFirstManyToManyNoCols == Config("t", RowPath, <<>>, <<ColTagManyToMany, ColId>>)
ConfigFirstManyToOne == Config("t", RowPath, <<>>, <<ColCat(<<ColName>>), ColV>>)
\* bbox on a column without conv and on a column with another conv
BBoxUnit == Some([minx |-> 0, miny |-> 0, maxx |-> 1, maxy |-> 1])
ConfigBBoxNoConv == Config("t", RowPath, <<>>, <<ColId, [ColV EXCEPT !.bbox = BBoxUnit]>>)
ConfigBBoxXmlToText ==
    Config("t", RowPath, <<>>, <<ColId, [ColV EXCEPT !.bbox = BBoxUnit, !.conv = Some("xml-to-text")]>>)
\* norm: "true"
ConfigNormTrue == Config("t", RowPath, <<>>, <<ColId, [ColV EXCEPT !.norm = Some("true")]>>)
\* incl next to conv on a column with file and without cols: the filter
\* moves to the single column of the subtable (lines 327 and 336)
ConfigFileInclConv ==
    Config("t", RowPath, <<>>,
           <<ColId, [ColTagOneToMany EXCEPT !.incl = Some(ReExact(<<"a">>)), !.conv = Some("xml-to-text")]>>)

\* The message of the fatalerr! that ends add_table for a configuration
RejectedConfigs ==
    { ConfigConvUnknown, ConfigInclConv, ConfigExclConv, ConfigFirstOneToMany,
      ConfigFirstOneToManyNoCols, ConfigFirstManyToMany, ConfigFirstManyToManyNoCols,
      ConfigNormTrue }

RejectMessage(c) ==
    CASE c = ConfigConvUnknown -> "option 'conv' contains invalid value"
      [] c \in {ConfigInclConv, ConfigExclConv} ->
             "filtering (incl/excl) and 'conv' cannot be used together on a single column"
      [] c = ConfigNormTrue -> "'norm' option now takes a file path instead of a boolean"
      [] OTHER -> "cannot have a subtable as first column"

\* The configurations of the claim that add_table accepts
AcceptedConfigs == { ConfigFirstManyToOne, ConfigBBoxNoConv, ConfigBBoxXmlToText, ConfigFileInclConv }

KidsValidate == {Leaf(TagId, <<"7">>), Leaf(TagV, <<"k">>), Cat(<<"A">>), Leaf(TagTag, <<"a">>)}

InitValidate ==
    \/ InitWith(RejectedConfigs, {DocVs})
    \/ InitWith(AcceptedConfigs, Docs(KidsValidate, MaxRows, 2))
SpecValidate == InitValidate /\ [][Next]_vars

C13_WitnessManyToOneFirst ==
    /\ cfg = ConfigFirstManyToOne
    /\ Done
    /\ xml = Doc(<< <<Cat(<<"A">>), Leaf(TagV, <<"k">>)>> >>)
    /\ SinkText(MainTable) = <<"A", "\t", "k", "\n">>

(***************************************************************************)
(* C14: the EWKB of a single geometry                                      *)
(***************************************************************************)
TagG == <<"g">>
GmlExterior == <<"g", "m", "l", ":", "e", "x", "t", "e", "r", "i", "o", "r">>

\* {name: g, path: /g, conv: gml-to-ewkb}
ColG == [YCol EXCEPT !.name = "g", !.path = Some(PathOf(<<TagG>>)), !.conv = Some("gml-to-ewkb")]
ConfigGml == Config("t", RowPath, <<>>, <<ColG>>)

\* A geometry of the input: gtype 1 (gml:Point), 2 (gml:LineString) or 3
\* (gml:Polygon), its srsDimension and the EPSG code of its srsName (0 when
\* the attribute is absent), and the whole numbers of each gml:pos / gml:posList
Geom(gtype, dimattr, srs, rings) == [gtype |-> gtype, dimattr |-> dimattr, srs |-> srs, rings |-> rings]

GeomAttrs(g) ==
    (IF g.srs = 0 THEN <<>>
     ELSE <<Attr("srsName", <<"E", "P", "S", "G", ":", ":">> \o to_string(g.srs))>>)
    \o (IF g.dimattr = 0 THEN <<>> ELSE <<Attr("srsDimension", to_string(g.dimattr))>>)

PosText(ring) == JoinWith([i \in 1..Len(ring) |-> to_string(ring[i])], <<" ">>)

\* The GML element of a geometry
GeomXml(g) ==
    CASE g.gtype = 1 -> Elem(GmlPoint, GeomAttrs(g), <<Elem(GmlPos, <<>>, <<TextNode(PosText(g.rings[1]))>>)>>)
      [] g.gtype = 2 -> Elem(GmlLineString, GeomAttrs(g),
                              <<Elem(GmlPosList, <<>>, <<TextNode(PosText(g.rings[1]))>>)>>)
      [] OTHER -> Elem(GmlPolygon, GeomAttrs(g),
                       [r \in 1..Len(g.rings) |->
                           Elem(GmlExterior, <<>>,
                                <<Elem(GmlLinearRing, <<>>,
                                       <<Elem(GmlPosList, <<>>, <<TextNode(PosText(g.rings[r]))>>)>>)>>)])

Point2D == Geom(1, 0, 0, << <<1, 2>> >>)
Point3D == Geom(1, 3, 28992, << <<1, 2, 3>> >>)
Line2D == Geom(2, 0, 0, << <<1, 2, 3, 4>> >>)
Line3D == Geom(2, 3, 0, << <<1, 2, 3, 4, 5, 6>> >>)
\* Three numbers in the posList of a two-dimensional line
LineOdd == Geom(2, 0, 0, << <<1, 2, 3>> >>)
Polygon2D == Geom(3, 0, 0, << <<0, 0, 1, 0, 1, 1, 0, 0>>, <<2, 2, 3, 2, 3, 3, 2, 2>> >>)

Geoms == {Point2D, Point3D, Line2D, Line3D, LineOdd, Polygon2D}

\* Rows with one geometry each
RECURSIVE GeomSeqs(_)
GeomSeqs(n) == IF n = 0 THEN {<<>>} ELSE {<<>>} \cup { <<g>> \o s : g \in Geoms, s \in GeomSeqs(n - 1) }

GmlDoc(geoms) == Doc([i \in 1..Len(geoms) |-> <<Elem(TagG, <<>>, <<GeomXml(geoms[i])>>)>>])

InitGml == InitWith({ConfigGml}, { GmlDoc(gs) : gs \in GeomSeqs(MaxRows) })
SpecGml == InitGml /\ [][Next]_vars

\* The geometries of the rows of the document, in document order
GeomsOf(doc) == CHOOSE gs \in GeomSeqs(MaxRows) : GmlDoc(gs) = doc

\* The bytes a string of hexadecimal digits stands for
HexValue(c) == (CHOOSE d \in 1..16 : HexChars[d] = c) - 1

RECURSIVE HexDecode(_)
HexDecode(hex) ==
    IF Len(hex) < 2 THEN <<>>
    ELSE <<HexValue(hex[1]) * 16 + HexValue(hex[2])>> \o HexDecode(SubSeq(hex, 3, Len(hex)))

DimsOf(g) == IF g.dimattr = 0 THEN 2 ELSE g.dimattr
SridOf(g) == IF g.srs = 0 THEN 4326 ELSE g.srs

\* 01, gtype, 00 00, the flag, the SRID and for a polygon the ring count
EwkbHeader(g) ==
    <<1, g.gtype, 0, 0, IF DimsOf(g) = 3 THEN 160 ELSE 32>> \o U32LE(SridOf(g))
    \o (IF g.gtype = 3 THEN U32LE(Len(g.rings)) ELSE <<>>)

\* Per ring the vertex count ring length / dims (not for a point) and the
\* coordinates
EwkbRings(g) ==
    Concat([r \in 1..Len(g.rings) |->
               (IF g.gtype # 1 THEN U32LE(Len(g.rings[r]) \div DimsOf(g)) ELSE <<>>)
               \o Concat([i \in 1..Len(g.rings[r]) |-> F64LE(g.rings[r][i])])])

RECURSIVE Sum(_)
Sum(ns) == IF ns = <<>> THEN 0 ELSE Head(ns) + Sum(Tail(ns))

\* The vertex counts the output declares, and the number of 8-byte
\* coordinates that follow the header and the counts
DeclaredVertices(g) == Sum([r \in 1..Len(g.rings) |-> Len(g.rings[r]) \div DimsOf(g)])
CoordinatesWritten(bytes, g) ==
    (Len(bytes) - Len(EwkbHeader(g)) - (IF g.gtype # 1 THEN 4 * Len(g.rings) ELSE 0)) \div 8

\* The fields the main table has written, one per line
GmlFields == Pop(Split(SinkText(MainTable), "\n"))

\* The layout of the claim for the field written for the geometry g
EwkbLayout(field, g) ==
    /\ HexDecode(field) = EwkbHeader(g) \o EwkbRings(g)
    /\ field = HexEncode(HexDecode(field))
    /\ g.gtype # 1 => CoordinatesWritten(HexDecode(field), g) = DeclaredVertices(g) * DimsOf(g)
    /\ g = Point2D =>
          field = <<"0", "1", "0", "1", "0", "0", "0", "0", "2", "0", "E", "6", "1", "0", "0", "0", "0", "0">>
                  \o <<"0", "0", "0", "0", "0", "0", "0", "0", "0", "0", "0", "0", "F", "0", "3", "F">>
                  \o <<"0", "0", "0", "0", "0", "0", "0", "0", "0", "0", "0", "0", "0", "0", "4", "0">>

\* C14: when the run has ended, the field written for each row's geometry
\* (a single geometry without multitype) is the uppercase hex of 01, gtype,
\* 00 00, flag 0x20 or 0xA0, the SRID, the ring count of a polygon, and per
\* ring the vertex count ring length / dims and the coordinates; the number
\* of coordinates written is the declared vertex counts times dims; a 2D
\* point with SRID 4326 begins with 0101000020E6100000.
C14_EwkbLayout ==
    Done /\ fatal = "" =>
        /\ Len(GmlFields) = Len(GeomsOf(xml))
        /\ \A i \in 1..Len(GmlFields) : EwkbLayout(GmlFields[i], GeomsOf(xml)[i])

\* The same for the documents whose rings hold a multiple of dims numbers
C14_EwkbLayoutWholeVertices ==
    Done /\ fatal = "" /\ (\A i \in 1..Len(GeomsOf(xml)) : GeomsOf(xml)[i] # LineOdd) =>
        /\ Len(GmlFields) = Len(GeomsOf(xml))
        /\ \A i \in 1..Len(GmlFields) : EwkbLayout(GmlFields[i], GeomsOf(xml)[i])

\* A polygon of two rings and a 3D point have been written
C14_WitnessPolygon ==
    /\ Done
    /\ fatal = ""
    /\ xml = GmlDoc(<<Polygon2D, Point3D>>)
    /\ Len(GmlFields) = 2

(***************************************************************************)
(* C15: spellings of the main table's path                                 *)
(***************************************************************************)
\* path: r/row, /r/row and /r/row/
PathSpellings ==
    { <<"r", "/", "r", "o", "w">>, <<"/", "r", "/", "r", "o", "w">>, <<"/", "r", "/", "r", "o", "w", "/">> }

\* skip: junk and incl: ^k$ on the column v, for each spelling of the path
ConfigsSpelled == { Config("t", p, TagJunk, <<ColId, ColVIncl>>) : p \in PathSpellings }

InitSpelled == InitWith(ConfigsSpelled, Docs(KidsJunk \cup {Leaf(TagV, <<"s">>)}, MaxRows, MaxElems))
SpecSpelled == InitSpelled /\ [][Next]_vars

\* The number of junk elements among the children of the first n rows
RECURSIVE JunkCount(_)
JunkCount(n) ==
    IF n = 0 THEN 0
    ELSE JunkCount(n - 1) + Cardinality({ i \in 1..Len(Rows[n].kids) : Rows[n].kids[i].tag = TagJunk })

\* The rows and the filter and skip counters are those of the document
SpelledRows ==
    /\ cfg.maintable.path = RowPath
    /\ tabs[MainTable].sent = KeptLines(Len(Rows))
    /\ state.filtercount = Cardinality({ j \in 1..Len(Rows) : FilteredOut(Rows[j].kids, MainCols, RowPath) })
    /\ state.skipcount = JunkCount(Len(Rows))

\* C15: with the path written r/row, /r/row or /r/row/, a run over the same
\* input ends with the same emitted rows and the same fullcount, filtercount
\* and skipcount: the rows the filter keeps, the number of row elements, the
\* number of rows filtered out and the number of skipped subtrees.
C15_PathSpellings ==
    Done => SpelledRows /\ state.fullcount = Len(Rows)

\* The rows, filtercount and skipcount do not depend on the spelling, and
\* fullcount is the number of row elements when the path is written /r/row
C15_CanonicalSpelling ==
    Done => SpelledRows /\ (cfg.rowpath = RowPath => state.fullcount = Len(Rows))

\* fullcount stays 0 when the path is written r/row or /r/row/
C15_FullcountZero ==
    cfg.rowpath # RowPath => state.fullcount = 0

\* A run with the path r/row has written one row and filtered out another
C15_WitnessRelative ==
    /\ Done
    /\ cfg.rowpath = <<"r", "/", "r", "o", "w">>
    /\ Len(Rows) = 2
    /\ RowsWritten = 1
    /\ state.filtercount = 1
    /\ state.fullcount = 0

(***************************************************************************)
(* C16: lastid and column 0                                                *)
(***************************************************************************)
\* {name: tag, path: /tag} as the first column, with an aggr, fed from the
\* element text or from the attribute k, without or with find: a, repl: x
ColKey(aggr, attr, find) ==
    [ColTag(aggr, attr) EXCEPT !.find = find,
                               !.repl = IF IsSome(find) THEN Some(<<"x">>) ELSE None]

ConfigsKey ==
    { Config("t", RowPath, <<>>, <<ColKey(aggr, attr, find), ColV>>) :
        aggr \in {None, Some("first"), Some("last"), Some("append")},
        attr \in {None, Some(KeyK)},
        find \in {None, Some(ReInfix(<<"a">>))} }

\* <tag k="a">a</tag> and <tag k="b">b</tag>
KidsKey ==
    { Elem(TagTag, <<Attr(KeyK, <<"a">>)>>, <<TextNode(<<"a">>)>>),
      Elem(TagTag, <<Attr(KeyK, <<"b">>)>>, <<TextNode(<<"b">>)>>) }

InitKey == InitWith(ConfigsKey, Docs(KidsKey, MaxRows, MaxElems))
SpecKey == InitKey /\ [][Next]_vars

\* C16: while column 0 of the main table holds a value, written from the
\* element text or from an attribute, with any aggr, any number of
\* occurrences and any find/replace, lastid equals that accumulated value.
C16_LastidIsColumn0 ==
    tabs[MainTable].value[1] # <<>> => tabs[MainTable].lastid = tabs[MainTable].value[1]

\* The same for the columns that take one value only (no aggr, or first)
\* and that are not an attribute column with find/replace
C16_LastidSingleWrite ==
    /\ MainCols[1].aggr \in {None, Some("first")}
    /\ (MainCols[1].attr = None \/ MainCols[1].find = None)
    /\ tabs[MainTable].value[1] # <<>>
    => tabs[MainTable].lastid = tabs[MainTable].value[1]

\* aggr: last on element text: after <tag>a</tag><tag>b</tag> column 0
\* holds b and lastid holds ab
C16_WitnessLast ==
    /\ MainCols[1].aggr = Some("last")
    /\ MainCols[1].attr = None
    /\ MainCols[1].find = None
    /\ tabs[MainTable].value[1] = <<"b">>
    /\ tabs[MainTable].lastid = <<"a", "b">>

\* An attribute column with find: a, repl: x: after <tag k="a"> column 0
\* holds x and lastid holds a
C16_WitnessAttr ==
    /\ MainCols[1].attr = Some(KeyK)
    /\ MainCols[1].find # None
    /\ tabs[MainTable].value[1] = <<"x">>
    /\ tabs[MainTable].lastid = <<"a">>

(***************************************************************************)
(* C17: two columns with the same path                                     *)
(***************************************************************************)
\* {name: w, path: /v}: a second column on the path of v
ColW == [ColV EXCEPT !.name = "w"]

\* Two element-text columns on /v; an attribute column and an element-text
\* column on /v, in both orders
ConfigTwinText == Config("t", RowPath, <<>>, <<ColId, ColV, ColW>>)
ConfigAttrThenText == Config("t", RowPath, <<>>, <<ColId, [ColV EXCEPT !.attr = Some(KeyK)], ColW>>)
ConfigTextThenAttr == Config("t", RowPath, <<>>, <<ColId, ColV, [ColW EXCEPT !.attr = Some(KeyK)]>>)

\* <id>1</id> and <v k="b">a</v>
KidsTwin == {Leaf(TagId, <<"1">>), Elem(TagV, <<Attr(KeyK, <<"b">>)>>, <<TextNode(<<"a">>)>>)}

InitTwin ==
    InitWith({ConfigTwinText, ConfigAttrThenText, ConfigTextThenAttr}, Docs(KidsTwin, MaxRows, MaxElems))
SpecTwin == InitTwin /\ [][Next]_vars

\* Every ended row has sent its line, with for each column the value the
\* row's elements at the column's path offer to it
TwinLines ==
    /\ Len(tabs[MainTable].sent) = EndedRows
    /\ \A j \in 1..EndedRows : tabs[MainTable].sent[j] = ExpectedLine(Rows[j].kids, MainCols, RowPath)

\* C17: outside the converter modes the text of an element goes to every
\* column of the active table whose path is the element's path: with two
\* element-text columns on the same path both fields of the row carry the
\* text.
C17_EveryMatchingColumn == TwinLines

\* The same when at most one of the columns on the path is an element-text
\* column
C17_OneTextColumn == cfg # ConfigTwinText => TwinLines

\* With two element-text columns on /v the row <id>1</id><v k="b">a</v> is
\* written with \N in the second of them
C17_WitnessSecondEmpty ==
    /\ cfg = ConfigTwinText
    /\ Done
    /\ xml = Doc(<< <<Leaf(TagId, <<"1">>), Elem(TagV, <<Attr(KeyK, <<"b">>)>>, <<TextNode(<<"a">>)>>)>> >>)
    /\ SinkText(MainTable) = <<"1", "\t", "a", "\t", "\\", "N", "\n">>

(***************************************************************************)
(* C18: the end of a converter mode                                        *)
(***************************************************************************)
TagB == <<"b">>

\* {name: v, path: /v, conv: xml-to-text} and the gml-to-ewkb column g,
\* after the column id
ConfigXmlToText == Config("t", RowPath, <<>>, <<ColId, [ColV EXCEPT !.conv = Some("xml-to-text")]>>)
ConfigIdGml == Config("t", RowPath, <<>>, <<ColId, ColG>>)

\* <v><b>a</b></v>, <v>a</v> and <v/>
ElemsXmlToText == { Elem(TagV, <<>>, <<Leaf(TagB, <<"a">>)>>), Leaf(TagV, <<"a">>), Elem(TagV, <<>>, <<>>) }
\* <g><gml:Point><gml:pos>1 2</gml:pos></gml:Point></g>, <g>1</g> and <g/>
ElemsGml == { Elem(TagG, <<>>, <<GeomXml(Point2D)>>), Leaf(TagG, <<"1">>), Elem(TagG, <<>>, <<>>) }

\* Rows that hold <id>1</id> alone, or one element of the conv column
\* followed by <id>1</id>
RECURSIVE ConvRows(_, _)
ConvRows(elems, n) ==
    IF n = 0 THEN {<<>>}
    ELSE {<<>>} \cup { <<row>> \o rest : row \in { <<Leaf(TagId, <<"1">>)>> } \cup { <<c, Leaf(TagId, <<"1">>)>> : c \in elems },
                                         rest \in ConvRows(elems, n - 1) }

InitConv ==
    \/ InitWith({ConfigXmlToText}, { Doc(rows) : rows \in ConvRows(ElemsXmlToText, MaxRows) })
    \/ InitWith({ConfigIdGml}, { Doc(rows) : rows \in ConvRows(ElemsGml, MaxRows) })
SpecConv == InitConv /\ [][Next]_vars

\* The content of an element as text: the text nodes, and each child element
\* as <tag>, its content and </tag>
RECURSIVE InnerXml(_)
InnerXml(kids) ==
    IF kids = <<>> THEN <<>>
    ELSE (IF Head(kids).k = "T" THEN trim_text(Head(kids).text)
          ELSE <<"<">> \o Head(kids).tag \o <<">">> \o InnerXml(Head(kids).kids)
               \o <<"<", "/">> \o Head(kids).tag \o <<">">>)
         \o InnerXml(Tail(kids))

\* The converted value of an element of the conv column
Converted(elem) ==
    IF elem.tag = TagV THEN InnerXml(elem.kids)
    ELSE IF elem = Elem(TagG, <<>>, <<GeomXml(Point2D)>>)
         THEN HexEncode(EwkbHeader(Point2D) \o EwkbRings(Point2D))
         ELSE <<>>

\* The End of the element of the conv column (the second column) was the
\* last event processed; it is the first child of the row that has not
\* ended yet
ConvJustClosed ==
    /\ pos > 2
    /\ read_events(xml)[pos - 1].type = "End"
    /\ OpenPath(pos - 2) = MainCols[2].path

\* No element at the conv column's path is open
ConvOutside == ~StartsWith(OpenPath(pos - 1), MainCols[2].path)

ConverterClosed ==
    /\ ConvOutside => ~state.xmltotext /\ ~state.gmltoewkb
    /\ ConvJustClosed => tabs[MainTable].value[2] = Converted(Rows[EndedRows + 1].kids[1])
    /\ Done => /\ RowsWritten = Len(Rows)
               /\ \A j \in 1..Len(Rows) :
                      tabs[MainTable].sent[j] =
                          <<"1", "\t">>
                          \o (IF Len(Rows[j].kids) = 2 /\ Converted(Rows[j].kids[1]) # <<>>
                              THEN Converted(Rows[j].kids[1]) ELSE Null)
                          \o <<"\n">>

\* C18: once the End of the element at a conv column's path has been
\* processed, xmltotext and gmltoewkb are false and the column holds the
\* converted value, whether the element holds child elements, text only or
\* nothing; the elements and rows that follow are processed as ordinary
\* columns and rows, so every row is written with its id and its converted
\* value.
C18_ConverterClosed == fatal = "" => ConverterClosed

\* The same for the documents in which every element of the conv column
\* holds one child element
C18_ClosedAfterChild ==
    /\ fatal = ""
    /\ \A j \in 1..Len(Rows) : Len(Rows[j].kids) = 2 =>
           /\ Len(Rows[j].kids[1].kids) = 1
           /\ Rows[j].kids[1].kids[1].k = "E"
    => ConverterClosed

\* After <row><v>a</v><id>1</id></row> and a second row the run has ended
\* with xmltotext still set and two rows without any value
C18_WitnessStuck ==
    /\ Done
    /\ fatal = ""
    /\ xml = Doc(<< <<Leaf(TagV, <<"a">>), Leaf(TagId, <<"1">>)>>, <<Leaf(TagId, <<"1">>)>> >>)
    /\ state.xmltotext
    /\ SinkText(MainTable) = <<"\\", "N", "\t", "\\", "N", "\n", "\\", "N", "\t", "\\", "N", "\n">>

(***************************************************************************)
(* C19: one field per listed column                                        *)
(***************************************************************************)
TagU == <<"u">>
ColU == [YCol EXCEPT !.name = "u", !.path = Some(PathOf(<<TagU>>))]
Hidden(col) == [col EXCEPT !.hide = TRUE]

\* The columns id, v and u with none or one of them hidden
ConfigNoHide == Config("t", RowPath, <<>>, <<ColId, ColV, ColU>>)
ConfigHideFirst == Config("t", RowPath, <<>>, <<Hidden(ColId), ColV, ColU>>)
ConfigHideMiddle == Config("t", RowPath, <<>>, <<ColId, Hidden(ColV), ColU>>)
ConfigHideLast == Config("t", RowPath, <<>>, <<ColId, ColV, Hidden(ColU)>>)
\* The subtable item of S4 between the columns id and u
ConfigOmitMiddle == Config("t", RowPath, <<>>, <<ColId, ColItem, ColU>>)
\* The subtable item with the columns v (hidden) and u
ConfigHideInSubtable ==
    Config("t", RowPath, <<>>, <<ColId, [ColItem EXCEPT !.cols = Some(<<Hidden(ColV), ColU>>)]>>)

KidsHide == {Leaf(TagId, <<"1">>), Leaf(TagV, <<"a">>), Leaf(TagU, <<"b">>)}
ItemVU == Elem(TagItem, <<>>, <<Leaf(TagV, <<"a">>), Leaf(TagU, <<"b">>)>>)
KidsOmit == {Leaf(TagId, <<"7">>), ItemVU, Leaf(TagU, <<"b">>)}

InitHide ==
    \/ InitWith({ConfigNoHide, ConfigHideFirst, ConfigHideMiddle, ConfigHideLast},
                Docs(KidsHide, MaxRows, MaxElems))
    \/ InitWith({ConfigOmitMiddle, ConfigHideInSubtable}, Docs(KidsOmit, MaxRows, MaxElems))
SpecHide == InitHide /\ [][Next]_vars

\* The number of fields of a line: one more than its TABs
RECURSIVE TabCount(_)
TabCount(line) ==
    IF line = <<>> THEN 0 ELSE (IF Head(line) = "\t" THEN 1 ELSE 0) + TabCount(Tail(line))
FieldCount(line) == TabCount(line) + 1

\* The columns of a table that have a field in its rows, and the number of
\* fields of a row: the leading foreign key and one per such column
ListedColumns(table) == SelectSeq(table.columns, Listed)
RowFields(ref) ==
    Len(ListedColumns(T(ref)))
    + (IF ref # MainTable /\ T(ref).cardinality # "ManyToOne" THEN 1 ELSE 0)

OneFieldPerColumn ==
    /\ \A ref \in TableRefs(cfg.maintable) :
           \A j \in 1..Len(tabs[ref].sent) : FieldCount(tabs[ref].sent[j]) = RowFields(ref)
    /\ \A j \in 1..Len(tabs[MainTable].sent) :
           tabs[MainTable].sent[j] = ExpectedLine(Rows[j].kids, ListedColumns(cfg.maintable), RowPath)

\* C19: every emitted row holds exactly one field for each column that is
\* neither hidden nor a subtable column of another cardinality than
\* ManyToOne (after the leading foreign key in a subtable's row), in
\* configuration order and separated by single TABs, wherever the hidden or
\* omitted column stands, column 0 included.
C19_OneFieldPerColumn == fatal = "" => OneFieldPerColumn

\* The same for the configurations whose tables do not hide their column 0
C19_FirstColumnListed ==
    /\ fatal = ""
    /\ \A ref \in TableRefs(cfg.maintable) : ~T(ref).columns[1].hide
    => OneFieldPerColumn

\* With the column id hidden, <row><id>1</id><v>a</v><u>b</u></row> is
\* written as <TAB>a<TAB>b
C19_WitnessLeadingTab ==
    /\ Done
    /\ fatal = ""
    /\ cfg = ConfigHideFirst
    /\ xml = Doc(<< <<Leaf(TagId, <<"1">>), Leaf(TagV, <<"a">>), Leaf(TagU, <<"b">>)>> >>)
    /\ SinkText(MainTable) = <<"\t", "a", "\t", "b", "\n">>

\* With the column v of the subtable hidden, the item of row 7 is written
\* as 7<TAB><TAB>b
C19_WitnessSubtable ==
    /\ Done
    /\ fatal = ""
    /\ cfg = ConfigHideInSubtable
    /\ xml = Doc(<< <<Leaf(TagId, <<"7">>), ItemVU>> >>)
    /\ SinkText(SubRef) = <<"7", "\t", "\t", "b", "\n">>

(***************************************************************************)
(* C20: the active subtable and the current path                           *)
(***************************************************************************)
\* The subtable item with the filtered column v, and a subtable tag inside
\* the subtable item
ConfigItemIncl == Config("t", RowPath, <<>>, <<ColId, [ColItem EXCEPT !.cols = Some(<<ColVIncl>>)]>>)
ConfigNested ==
    Config("t", RowPath, <<>>, <<ColId, [ColItem EXCEPT !.cols = Some(<<ColV, ColTagOneToMany>>)]>>)

ItemTag == Elem(TagItem, <<>>, <<Leaf(TagV, <<"k">>), Leaf(TagTag, <<"a">>)>>)
KidsItems == {Leaf(TagId, <<"7">>), Item(<<"k">>), Item(<<"s">>)}
KidsNested == {Leaf(TagId, <<"7">>), ItemTag}
KidsCat == {Leaf(TagId, <<"7">>), Cat(<<"A">>)}

\* The documents of one row of at most MaxElems of the children KidsItems
DocsItems == { Doc(<<row>>) : row \in KidSeqs(KidsItems, MaxElems) }

InitStack ==
    \/ InitWith({ConfigS4, ConfigItemIncl}, DocsItems)
    \/ InitWith({ConfigNested}, Docs(KidsNested, MaxRows, MaxElems))
    \/ InitWith({ConfigManyToMany}, Docs(KidsLink, MaxRows, MaxElems))
    \/ InitWith({ConfigNorm}, Docs(KidsCat, MaxRows, MaxElems))
SpecStack == InitStack /\ [][Next]_vars

\* In the state w, a subtable is the active table only with a current path
\* that starts with the subtable's path
ActiveInside(w) == w.st.tables # <<>> => StartsWith(w.st.path, T(w.st.table).path)

\* ActiveInside after every call of process_event made while the deferred
\* events are replayed (main.rs 594-606); w1 is the state the call for the
\* first of the events returned
RECURSIVE ReplayInside(_, _)
ReplayInsideStep(w1, events) ==
    \/ w1.fatal # ""
    \/ /\ ActiveInside(w1)
       /\ IF w1.st.step = "Repeat" THEN ReplayInside(w1, events)
          ELSE IF w1.st.step \in {"Defer", "Done"} \/ Tail(events) = <<>> THEN TRUE
          ELSE ReplayInside(w1, Tail(events))
ReplayInside(w, events) == ReplayInsideStep(process_event(Head(events), w), events)

\* ActiveInside after every call of process_event made for one event of
\* the reader (main.rs 571-614), the calls of the replay included
RECURSIVE CallsInside(_, _)
CallsInsideStep(w1, event) ==
    \/ w1.fatal # ""
    \/ /\ ActiveInside(w1)
       /\ IF w1.st.step = "Repeat" THEN CallsInside(w1, event)
          ELSE IF w1.st.step = "Apply" /\ w1.tb[w1.st.table].lastid # <<>>
          THEN ReplayInside([w1 EXCEPT !.st.step = "Repeat", !.st.path = Unwrap(w1.st.deferred),
                                       !.st.deferred = None, !.deferred = <<>>], w1.deferred)
          ELSE TRUE
CallsInside(w, event) == CallsInsideStep(process_event(event, w), event)

\* C20: whenever the table stack is not empty, the path of the active
\* subtable is a prefix of, or equal to, the current path: between two
\* events of the reader and after every call of process_event, also while
\* events are deferred, while they are replayed and after a filtered
\* subtable row.
C20_ActiveInside ==
    fatal = "" => /\ ActiveInside(World)
                  /\ Running => CallsInside(World, Event)

\* The subtable item is active while its events are deferred: the item
\* precedes the id of its row
C20_WitnessDeferred ==
    /\ fatal = ""
    /\ state.tables # <<>>
    /\ IsSome(state.deferred)
    /\ StartsWith(state.path, T(state.table).path)

\* A row whose item was deferred, replayed and filtered has been written,
\* and the stack is empty again
C20_WitnessReplayFiltered ==
    /\ Done
    /\ fatal = ""
    /\ cfg = ConfigItemIncl
    /\ xml = Doc(<< <<Item(<<"s">>), Leaf(TagId, <<"7">>), Item(<<"k">>)>> >>)
    /\ state.tables = <<>>
    /\ SinkText(MainTable) = <<"7", "\n">>
    /\ SinkText(SubRef) = <<"7", "\t", "k", "\n">>

\* The subtable tag is active inside the subtable item: two tables are on
\* the stack
C20_WitnessNested ==
    /\ fatal = ""
    /\ Len(state.tables) = 2
    /\ state.path = PathOf(<<TagR, TagRow, TagItem, TagTag>>)

(***************************************************************************)
(* C21: the accumulators after the End of a row                            *)
(***************************************************************************)
\* A hidden filtered column and an attribute column
ConfigClearMain == Config("t", RowPath, <<>>, <<ColId, Hidden(ColVIncl), ColTag(None, Some(KeyK))>>)
\* The subtable item of S4 whose column also reads the attribute k
ColItemAttr == [ColItem EXCEPT !.attr = Some(KeyK)]
ConfigItemAttr == Config("t", RowPath, <<>>, <<ColId, ColItemAttr>>)
\* The same column with incl: ^a$
ConfigItemAttrIncl ==
    Config("t", RowPath, <<>>, <<ColId, [ColItemAttr EXCEPT !.incl = Some(ReExact(<<"a">>))]>>)

\* <item k="a"><v>k</v></item>
ItemK == Elem(TagItem, <<Attr(KeyK, <<"a">>)>>, <<Leaf(TagV, <<"k">>)>>)
KidsClearMain == {Leaf(TagV, <<"k">>), Leaf(TagV, <<"s">>), ElemX}
KidsItemAttr == {Leaf(TagId, <<"7">>), ItemK}

InitClear ==
    \/ InitWith({ConfigClearMain}, Docs(KidsClearMain, MaxRows, MaxElems))
    \/ InitWith({ConfigVNorm}, Docs(KidsSerial, MaxRows, MaxElems))
    \/ InitWith({ConfigManyToMany}, Docs(KidsLink, MaxRows, MaxElems))
    \/ InitWith({ConfigNorm, ConfigNormSerial}, Docs(KidsCat, MaxRows, MaxElems))
    \/ InitWith({ConfigS4, ConfigItemAttr, ConfigItemAttrIncl}, Docs(KidsItemAttr, MaxRows, MaxElems))
SpecClear == InitClear /\ [][Next]_vars

\* The current path is that of a row element of the table, or of an element
\* inside one
InsideRow(ref) ==
    /\ StartsWith(state.path, T(ref).path)
    /\ Len(state.path) > Len(T(ref).path) => state.path[Len(T(ref).path) + 1] = "/"

\* The columns of a table that carry a subtable which is not ManyToOne
CarriesRows(column) == IsSome(column.subtable) /\ Unwrap(column.subtable).cardinality # "ManyToOne"

\* C21: once the End of a table's row element has been processed (the row
\* written, deduplicated by a domain or filtered), every column accumulator
\* of that table is empty, hidden columns, attribute columns and columns
\* that carry a subtable included: outside the row elements of a table no
\* column of it holds a value.
C21_AccumulatorsCleared ==
    fatal = "" =>
        \A ref \in TableRefs(cfg.maintable) :
            ~InsideRow(ref) => \A i \in 1..Len(T(ref).columns) : tabs[ref].value[i] = <<>>

\* The same for the columns that do not carry a OneToMany or ManyToMany subtable
C21_ClearedExceptSubtableColumns ==
    fatal = "" =>
        \A ref \in TableRefs(cfg.maintable) :
            ~InsideRow(ref) =>
                \A i \in 1..Len(T(ref).columns) :
                    ~CarriesRows(T(ref).columns[i]) => tabs[ref].value[i] = <<>>

\* After <row><id>7</id><item k="a">..</item></row> the column item of the
\* main table still holds a
C21_WitnessCarriedOver ==
    /\ Done
    /\ fatal = ""
    /\ cfg = ConfigItemAttr
    /\ xml = Doc(<< <<Leaf(TagId, <<"7">>), ItemK>> >>)
    /\ tabs[MainTable].value[2] = <<"a">>

\* With incl: ^a$ on that column the second row, which has no item, is
\* written because of the value left by the first
C21_WitnessStaleFilter ==
    /\ Done
    /\ fatal = ""
    /\ cfg = ConfigItemAttrIncl
    /\ xml = Doc(<< <<Leaf(TagId, <<"7">>), ItemK>>, <<Leaf(TagId, <<"7">>)>> >>)
    /\ SinkText(MainTable) = <<"7", "\n", "7", "\n">>
    /\ state.filtercount = 0

\* A hidden column and an attribute column held a value and are empty
\* after the End of their row
C21_WitnessCleared ==
    /\ AtRowEnd
    /\ fatal = ""
    /\ cfg = ConfigClearMain
    /\ Rows[EndedRows].kids = <<Leaf(TagV, <<"k">>), ElemX>>
    /\ tabs[MainTable].value = <<<<>>, <<>>, <<>>>>
    /\ RowsWritten = 1

(***************************************************************************)
(* C22: which events are deferred                                          *)
(***************************************************************************)
TagItemId == <<"i", "t", "e", "m", "i", "d">>

\* S4 with the key of the row read from <itemid>
ConfigItemId ==
    Config("t", RowPath, <<>>, <<[ColId EXCEPT !.path = Some(PathOf(<<TagItemId>>))], ColItem>>)

KidsItemId == {Leaf(TagId, <<"7">>), Leaf(TagItemId, <<"7">>), Item(<<"a">>)}

InitPrefix == InitWith({ConfigS4, ConfigItemId}, Docs(KidsItemId, MaxRows, MaxElems))
SpecPrefix == InitPrefix /\ [][Next]_vars

\* Among the first n children of a row there is a key element with a text
KeySeen(kids, n) == \E h \in 1..n : IsKeyElem(kids[h]) /\ NodeTexts(kids[h].kids) # <<>>

DeferredOnlyInside ==
    /\ \A j \in 1..Len(Rows) : \A n \in 0..Len(Rows[j].kids) :
          (AfterKid(j, n) /\ fatal = "") =>
              /\ DeferStarted(Rows[j].kids, n) =>
                     IsSome(state.deferred) /\ deferred = SubEvents(Rows[j].kids, n)
              /\ ~DeferStarted(Rows[j].kids, n) => state.deferred = None /\ deferred = <<>>
              /\ (tabs[MainTable].lastid # <<>>) = KeySeen(Rows[j].kids, n)
    /\ fatal # "" => \E j \in 1..Len(Rows) : Key(j) = <<>> /\ SubElems(Rows[j].kids) # <<>>
    /\ Done => tabs[SubRef].sent = SubLinesUpTo(Len(Rows), FALSE)

\* C22: while a deferred prefix is active, the buffer holds exactly the
\* events of the deferred subtable's elements and of their descendants; the
\* events of every other child of the parent row, whatever its tag (also a
\* tag that begins with the subtable's tag), are processed at once, so the
\* key column fills lastid and every subtable row is written with its key.
C22_DeferredOnlyInside == DeferredOnlyInside

\* The same for the documents without a sibling whose tag begins with the
\* subtable's tag
C22_OtherTags ==
    (\A j \in 1..Len(Rows) : \A i \in 1..Len(Rows[j].kids) : Rows[j].kids[i].tag # TagItemId)
    => DeferredOnlyInside

\* <row><item><v>a</v></item><itemid>7</itemid></row> with the key read
\* from <itemid>: the key's events were buffered and the run failed at the
\* End of the row
C22_WitnessKeyBuffered ==
    /\ cfg = ConfigItemId
    /\ xml = Doc(<< <<Item(<<"a">>), Leaf(TagItemId, <<"7">>)>> >>)
    /\ fatal = "Subtable defer failed to yield a key for parent table"
    /\ SinkText(SubRef) = <<>>

\* The same row under S4 after </itemid>: the buffer holds the events of
\* <itemid> behind those of <item>
C22_WitnessSiblingBuffered ==
    /\ cfg = ConfigS4
    /\ xml = Doc(<< <<Item(<<"a">>), Leaf(TagItemId, <<"7">>)>> >>)
    /\ AfterKid(1, 2)
    /\ deferred = Events(Item(<<"a">>)) \o Events(Leaf(TagItemId, <<"7">>))

(***************************************************************************)
(* C23: deferral below a subtable (three table levels)                     *)
(***************************************************************************)
\* <item><tag>a</tag><v>k</v></item>: the subtable tag precedes the key v
\* of its parent item
ItemTagFirst == Elem(TagItem, <<>>, <<Leaf(TagTag, <<"a">>), Leaf(TagV, <<"k">>)>>)
KidsThree == {Leaf(TagId, <<"7">>), ItemTag, ItemTagFirst}

InitThree == InitWith({ConfigNested}, Docs(KidsThree, MaxRows, MaxElems))
SpecThree == InitThree /\ [][Next]_vars

\* The table tag inside the table item
TagRef == <<2, 2>>

\* The number of item elements among the children of the rows
RECURSIVE ItemCount(_)
ItemCount(rows) ==
    IF rows = <<>> THEN 0
    ELSE Cardinality({ i \in 1..Len(Head(rows).kids) : Head(rows).kids[i].tag = TagItem })
         + ItemCount(Tail(rows))

ThreeLevels ==
    (Done /\ fatal = "") =>
        /\ deferred = <<>>
        /\ tabs[SubRef].sent = [i \in 1..ItemCount(Rows) |-> <<"7", "\t", "k", "\n">>]
        /\ tabs[TagRef].sent = [i \in 1..ItemCount(Rows) |-> <<"k", "\t", "a", "\n">>]

\* C23: when the parent of a deferring subtable is itself a subtable, the
\* buffered events are replayed at the End of that parent's row with that
\* parent as the active table, and every buffered subtable row is written
\* with the parent's key: a run that ends without error has written one row
\* k<TAB>a for the tag of every item.
C23_ThreeLevels == ThreeLevels

\* The same for the documents in which the key v of every item precedes
\* its tag, so that nothing is deferred below the item
C23_KeyBeforeTag ==
    (\A j \in 1..Len(Rows) : \A i \in 1..Len(Rows[j].kids) : Rows[j].kids[i] # ItemTagFirst)
    => ThreeLevels

\* <row><id>7</id><item><tag>a</tag><v>k</v></item></row>: the run ends
\* without error, the item is written and its tag is not
C23_WitnessRowLost ==
    /\ Done
    /\ fatal = ""
    /\ xml = Doc(<< <<Leaf(TagId, <<"7">>), ItemTagFirst>> >>)
    /\ SinkText(SubRef) = <<"7", "\t", "k", "\n">>
    /\ SinkText(TagRef) = <<>>

\* After </item> of that row the events of the tag are still buffered and
\* the main table is the active table
C23_WitnessStillBuffered ==
    /\ fatal = ""
    /\ xml = Doc(<< <<Leaf(TagId, <<"7">>), ItemTagFirst>> >>)
    /\ AfterKid(1, 2)
    /\ deferred = Events(Leaf(TagTag, <<"a">>))
    /\ state.table = MainTable

ConfigTwoSubtables == Config("t", RowPath, <<>>, <<ColId, ColItem, ColTagOneToMany>>)

\* <item><tag>a</tag></item>: an item without its key v
ItemNoKey == Elem(TagItem, <<>>, <<Leaf(TagTag, <<"a">>)>>)

KidsTwoSubtables == {Leaf(TagId, <<"7">>), Item(<<"a">>), Leaf(TagTag, <<"a">>)}
KidsNoKey == {Leaf(TagId, <<"7">>), ItemTagFirst, ItemNoKey}

InitFatal ==
    \/ InitWith({ConfigTwoSubtables}, Docs(KidsTwoSubtables, MaxRows, MaxElems))
    \/ InitWith({ConfigNested}, Docs(KidsNoKey, MaxRows, MaxElems))
SpecFatal == InitFatal /\ [][Next]_vars

\* A child of a row that is a row element of a subtable of the main table
IsSubElem(kid) == kid.tag \in {TagItem, TagTag}

\* The subtable element i of a row comes before the key of the row: it
\* needs a deferral
NeedsDeferral(kids, i) == IsSubElem(kids[i]) /\ ~KeySeen(kids, i - 1)

\* The row cannot be served: a deferring subtable and no key in the row, a
\* second subtable that needs a deferral, a buffered item that defers
\* again when it is replayed, or an item that defers its tag and has no key
Unservable(kids) ==
    \/ \E i \in 1..Len(kids) :
           /\ NeedsDeferral(kids, i)
           /\ \/ ~KeySeen(kids, Len(kids))
              \/ \E h \in 1..Len(kids) : NeedsDeferral(kids, h) /\ kids[h].tag # kids[i].tag
              \/ \E h \in i..Len(kids) : kids[h] \in {ItemTagFirst, ItemNoKey}
    \/ \E i \in 1..Len(kids) : kids[i] = ItemNoKey

\* No row of a OneToMany or ManyToMany subtable starts with an empty key
NoEmptyForeignKey ==
    \A ref \in TableRefs(cfg.maintable) \ {MainTable} :
        T(ref).cardinality # "ManyToOne" =>
            \A k \in 1..Len(tabs[ref].sent) : Head(tabs[ref].sent[k]) # "\t"

FatalOrServed ==
    /\ NoEmptyForeignKey
    /\ \A j \in 1..EndedRows : Unservable(Rows[j].kids) => fatal # ""

\* C25: when the replay of the buffered events would start another
\* deferral, when a second subtable needs a deferral while a prefix is
\* set, or when the parent row ends without a key, the run stops with a
\* fatal error: no row that cannot be served is passed without error, and
\* no subtable row with an empty foreign key is written.
C25_FatalOrServed == FatalOrServed

\* The same for the documents without an item that lacks its key
C25_ParentBelowMain ==
    (\A j \in 1..Len(Rows) : \A i \in 1..Len(Rows[j].kids) : Rows[j].kids[i] # ItemNoKey)
    => FatalOrServed

\* <row><id>7</id><item><tag>a</tag></item></row>: the item has ended
\* without a key for its tag and the run ends without error
C25_WitnessNoError ==
    /\ Done
    /\ fatal = ""
    /\ xml = Doc(<< <<Leaf(TagId, <<"7">>), ItemNoKey>> >>)
    /\ SinkText(TagRef) = <<>>

\* The three errors
C25_WitnessNested ==
    /\ fatal = "nested subtables that need non-linear processing"
    /\ xml = Doc(<< <<ItemTagFirst, Leaf(TagId, <<"7">>)>> >>)
C25_WitnessSecond ==
    /\ fatal = "multiple subtables that precede the parent table id column"
    /\ xml = Doc(<< <<Item(<<"a">>), Leaf(TagTag, <<"a">>), Leaf(TagId, <<"7">>)>> >>)
C25_WitnessNoKey ==
    /\ fatal = "Subtable defer failed to yield a key for parent table"
    /\ xml = Doc(<< <<Item(<<"a">>)>> >>)

(***************************************************************************)
(* C26: the ids of a domain                                                *)
(***************************************************************************)
\* A crosslink table with columns of its own, the second with a domain:
\* {name: tag, path: /tag, file: link.tsv, norm: tags.tsv,
\*  cols: [{name: v, path: /v}, {name: u, path: /u, norm: u.tsv}]}
ColTagLinkNorm ==
    [ColTagManyToMany EXCEPT !.cols = Some(<<ColV, [ColU EXCEPT !.norm = Some("u.tsv")]>>)]
ConfigLinkNorm == Config("t", RowPath, <<>>, <<ColId, ColTagLinkNorm>>)

\* <tag><v>..</v><u>..</u></tag>
TagVU(v, u) == Elem(TagTag, <<>>, <<Leaf(TagV, v), Leaf(TagU, u)>>)
KidsLinkNorm == {Leaf(TagId, <<"7">>), TagVU(<<"a">>, <<"A">>), TagVU(<<"b">>, <<"B">>)}

InitDomain ==
    \/ InitWith({ConfigVNorm}, Docs(KidsSerial, MaxRows, MaxElems))
    \/ InitWith({ConfigManyToMany}, Docs(KidsTags, MaxRows, MaxElems))
    \/ InitWith({ConfigNorm, ConfigNormSerial}, CatDocs(MaxRows))
    \/ InitWith({ConfigLinkNorm}, Docs(KidsLinkNorm, MaxRows, MaxElems))
SpecDomain == InitDomain /\ [][Next]_vars

\* The ids a domain has assigned are 1..lastid, one key each
IdsDense(dom) ==
    /\ { e.id : e \in dom.map } = 1..dom.lastid
    /\ Cardinality(dom.map) = dom.lastid

\* The lookup rows of a per-column domain: the row id<TAB>value of every id,
\* once
LookupRowsOnce(dom) ==
    /\ Len(dom.sent) = dom.lastid
    /\ \A e \in dom.map :
           Cardinality({ k \in 1..Len(dom.sent) :
                           dom.sent[k] = to_string(e.id) \o <<"\t">> \o e.key \o <<"\n">> }) = 1

DomainIdsDense ==
    \A ref \in TableRefs(cfg.maintable) :
        /\ IdsDense(tabs[ref].domain)
        /\ \A i \in 1..Len(T(ref).columns) : IdsDense(tabs[ref].coldomain[i])

\* C26: in every state the ids a domain has assigned are exactly
\* 1..lastid, each id belongs to one key of the map, and every id of a
\* per-column domain has been written in exactly one lookup row
\* id<TAB>value.
C26_DomainIds ==
    /\ DomainIdsDense
    /\ \A ref \in TableRefs(cfg.maintable) :
           \A i \in 1..Len(T(ref).columns) : LookupRowsOnce(tabs[ref].coldomain[i])

\* The same with the lookup rows of the columns of the tables that have no
\* domain of their own
C26_DomainIdsPlainTables ==
    /\ DomainIdsDense
    /\ \A ref \in TableRefs(cfg.maintable) :
           ~IsSome(T(ref).domain) =>
               \A i \in 1..Len(T(ref).columns) : LookupRowsOnce(tabs[ref].coldomain[i])

\* After the tags (a, A) and (b, B) the lookup table of the column u holds
\* 1<TAB>A and 12<TAB>B
C26_WitnessStrayId ==
    /\ fatal = ""
    /\ cfg = ConfigLinkNorm
    /\ tabs[SubRef].coldomain[2].lastid = 2
    /\ tabs[SubRef].coldomain[2].sent =
           << <<"1", "\t", "A", "\n">>, <<"1", "2", "\t", "B", "\n">> >>

\* A column domain of the main table has assigned the ids 1 and 2 and has
\* written their rows
C26_WitnessTwoIds ==
    /\ fatal = ""
    /\ cfg = ConfigVNorm
    /\ tabs[MainTable].coldomain[2].lastid = 2
    /\ tabs[MainTable].coldomain[2].sent = << <<"1", "\t", "k", "\n">>, <<"2", "\t", "s", "\n">> >>

(***************************************************************************)
(* C27: several ManyToOne children in one parent row                       *)
(***************************************************************************)
KidsCats == {Cat(<<"A">>), Cat(<<"B">>)}

InitManyToOne == InitWith({ConfigNorm, ConfigNormSerial}, Docs(KidsCats, MaxRows, MaxElems))
SpecManyToOne == InitManyToOne /\ [][Next]_vars

\* The name of a <cat><name>..</name></cat>
NameOf(cat) == cat.kids[1].kids[1].text

\* The number of cats in the first j rows
RECURSIVE CatsUpTo(_)
CatsUpTo(j) == IF j = 0 THEN 0 ELSE CatsUpTo(j - 1) + Len(Rows[j].kids)

\* The accumulator of the parent column holds the id of one child row, that
\* of the cat given: its name when the name is the key of the child table,
\* one of the ids handed out so far when that table has a serial column
HoldsIdOf(value, cat, j) ==
    IF cfg = ConfigNorm THEN value = NameOf(cat)
    ELSE \E k \in 1..CatsUpTo(j) : value = to_string(k)

LastChildWins ==
    fatal = "" =>
        \A j \in 1..Len(Rows) : \A n \in 1..Len(Rows[j].kids) :
            AfterKid(j, n) => HoldsIdOf(tabs[MainTable].value[2], Rows[j].kids[n], j)

\* C27: after the End of a ManyToOne child row the accumulator of the
\* parent column holds the id of exactly one child row; with several
\* children of the column in one parent row and no aggr on the column, it
\* is the id of the last child, for new keys and for keys the domain knows.
C27_LastChildWins == LastChildWins

\* The same for the documents with at most one child in a row
C27_SingleChild == (\A j \in 1..Len(Rows) : Len(Rows[j].kids) <= 1) => LastChildWins

\* Two new keys in one row: the parent row carries the first, A
C27_WitnessFirstWins ==
    /\ Done
    /\ fatal = ""
    /\ cfg = ConfigNorm
    /\ xml = Doc(<< <<Cat(<<"A">>), Cat(<<"B">>)>> >>)
    /\ SinkText(MainTable) = <<"\\", "N", "\t", "A", "\n">>

\* Two children with a known key in the second row: the parent row
\* carries both ids, AA
C27_WitnessConcatenated ==
    /\ Done
    /\ fatal = ""
    /\ cfg = ConfigNorm
    /\ xml = Doc(<< <<Cat(<<"A">>)>>, <<Cat(<<"A">>), Cat(<<"A">>)>> >>)
    /\ tabs[MainTable].sent[2] = <<"\\", "N", "\t", "A", "A", "\n">>

(***************************************************************************)
(* C28: the header of a multi geometry                                     *)
(***************************************************************************)
GmlMultiGeometry == <<"g", "m", "l", ":", "M", "u", "l", "t", "i", "G", "e", "o", "m", "e", "t", "r", "y">>

\* {name: g, path: /g, conv: gml-to-ewkb, mult: true}
ConfigGmlMult == Config("t", RowPath, <<>>, <<[ColG EXCEPT !.mult = TRUE]>>)

\* The number of geometries in one gml:MultiGeometry
MaxGeoms == 2

GeomsMulti == {Point2D, Point3D, Line2D}

RECURSIVE MultiSeqs(_)
MultiSeqs(n) == IF n = 0 THEN {<<>>} ELSE {<<>>} \cup { <<g>> \o s : g \in GeomsMulti, s \in MultiSeqs(n - 1) }

\* <g><gml:MultiGeometry> the geometries </gml:MultiGeometry></g>
MultiG(gs) == Elem(TagG, <<>>, <<Elem(GmlMultiGeometry, <<>>, [i \in 1..Len(gs) |-> GeomXml(gs[i])])>>)

\* One row with a multi geometry, alone or followed by a row with <g> of one
\* 2D point
MultiDocs ==
    { Doc(<< <<MultiG(gs)>> >>) : gs \in MultiSeqs(MaxGeoms) }
    \cup { Doc(<< <<MultiG(gs)>>, <<MultiG(<<Point2D>>)>> >>) : gs \in MultiSeqs(MaxGeoms) }

InitMulti == InitWith({ConfigGml, ConfigGmlMult}, MultiDocs)
SpecMulti == InitMulti /\ [][Next]_vars

\* The geometries of the j-th row
MultiOf(j) == CHOOSE gs \in MultiSeqs(MaxGeoms) : Rows[j].kids[1] = MultiG(gs)

\* The encoder writes the multi header for the j-th row
IsMulti(j) == MainCols[1].multitype \/ Len(MultiOf(j)) > 1

\* 01, gtype+3 of the first geometry, `zeros' zero bytes and the count
MultiHeader(gs, zeros) == <<1, gs[1].gtype + 3>> \o [i \in 1..zeros |-> 0] \o U32LE(Len(gs))

\* The hex of the header and of the encoding of each geometry
MultiField(gs, zeros) ==
    HexEncode(MultiHeader(gs, zeros) \o Concat([i \in 1..Len(gs) |-> EwkbHeader(gs[i]) \o EwkbRings(gs[i])]))

C28_WitnessForced ==
    /\ AfterKid(1, 1)
    /\ fatal = ""
    /\ cfg = ConfigGmlMult
    /\ MultiOf(1) = <<Point2D>>
    /\ tabs[MainTable].value[1] = MultiField(<<Point2D>>, 3)

\* mult and an empty gml:MultiGeometry
C28_WitnessEmpty ==
    /\ cfg = ConfigGmlMult
    /\ MultiOf(1) = <<>>
    /\ fatal = "panic in gml_to_ewkb"

(***************************************************************************)
(* C29: pruning by bbox                                                    *)
(***************************************************************************)
\* {name: g, path: /g, conv: gml-to-ewkb, bbox: "0,0,1,1"}
ConfigGmlBBox == Config("t", RowPath, <<>>, <<[ColG EXCEPT !.bbox = BBoxUnit]>>)

\* Points and lines with and without a vertex in [0,1] x [0,1]
PointIn2D == Geom(1, 0, 0, << <<1, 1>> >>)
PointOut2D == Geom(1, 0, 0, << <<1, 2>> >>)
LineIn2D == Geom(2, 0, 0, << <<3, 3, 0, 1>> >>)
PointIn3D == Geom(1, 3, 0, << <<1, 1, 5>> >>)
PointOut3D == Geom(1, 3, 0, << <<1, 2, 1>> >>)
LineIn3D == Geom(2, 3, 0, << <<5, 0, 0, 1, 0, 9>> >>)
LineOut3D == Geom(2, 3, 0, << <<0, 5, 0, 5, 1, 1>> >>)

Geoms2D == {PointIn2D, PointOut2D, LineIn2D}
Geoms3D == {PointIn3D, PointOut3D, LineIn3D, LineOut3D}

RECURSIVE BoxSeqs(_)
BoxSeqs(n) ==
    IF n = 0 THEN {<<>>} ELSE {<<>>} \cup { <<g>> \o s : g \in Geoms2D \cup Geoms3D, s \in BoxSeqs(n - 1) }

InitBBox == InitWith({ConfigGmlBBox}, { GmlDoc(gs) : gs \in BoxSeqs(MaxRows) })
SpecBBox == InitBBox /\ [][Next]_vars

\* The geometry of the j-th row
BoxGeom(j) == CHOOSE g \in Geoms2D \cup Geoms3D : Rows[j].kids[1].kids[1] = GeomXml(g)

\* Some vertex of the geometry lies within [minx,maxx] x [miny,maxy]
VertexInside(g, bbox) ==
    \E r \in 1..Len(g.rings) : \E v \in 0..(Len(g.rings[r]) \div DimsOf(g) - 1) :
        LET x == g.rings[r][v * DimsOf(g) + 1]
            y == g.rings[r][v * DimsOf(g) + 2]
        IN  x >= bbox.minx /\ x <= bbox.maxx /\ y >= bbox.miny /\ y <= bbox.maxy

Kept(j) == VertexInside(BoxGeom(j), Unwrap(MainCols[1].bbox))

\* The lines of the rows among the first j that are kept
RECURSIVE BoxLines(_)
BoxLines(j) ==
    IF j = 0 THEN <<>>
    ELSE BoxLines(j - 1)
         \o (IF Kept(j) THEN <<HexEncode(EwkbHeader(BoxGeom(j)) \o EwkbRings(BoxGeom(j))) \o <<"\n">> >>
             ELSE <<>>)

\* After the geometry of a row the column holds its encoding when it is
\* kept, and is empty with the row marked as filtered when it is pruned;
\* after the rows, the lines written are those of the kept rows and
\* filtercount is the number of pruned rows
BBoxPrune ==
    /\ fatal = ""
    /\ \A j \in 1..Len(Rows) :
           /\ AfterKid(j, 1) =>
                 IF Kept(j)
                 THEN /\ tabs[MainTable].value[1] = HexEncode(EwkbHeader(BoxGeom(j)) \o EwkbRings(BoxGeom(j)))
                      /\ ~state.filtered
                 ELSE tabs[MainTable].value[1] = <<>> /\ state.filtered
           /\ pos = RowEndIndex(j) + 1 =>
                 /\ tabs[MainTable].sent = BoxLines(j)
                 /\ state.filtercount = j - Len(BoxLines(j))
                 /\ state.fullcount = j

C29_BBox3D == (\A j \in 1..Len(Rows) : BoxGeom(j) \in Geoms3D) => BBoxPrune

\* The 2D point (1, 1), inside the bbox, is pruned and its row filtered
C29_WitnessInsidePruned ==
    /\ Done
    /\ fatal = ""
    /\ xml = GmlDoc(<<PointIn2D>>)
    /\ tabs[MainTable].sent = <<>>
    /\ state.filtercount = 1

\* The 3D line with the vertex (0, 1, 0) is kept, the 3D point (1, 2, 1) is
\* pruned
C29_Witness3D ==
    /\ Done
    /\ fatal = ""
    /\ xml = GmlDoc(<<LineIn3D, PointOut3D>>)
    /\ Len(tabs[MainTable].sent) = 1
    /\ state.filtercount = 1

(***************************************************************************)
(* C30: srsDimension other than 2 and 3                                    *)
(***************************************************************************)
\* Values of srsDimension that are neither 2 nor 3
OtherDims == {0, 4, 255}

DimPoint(d) == Geom(1, d, 0, << <<1, 2>> >>)
DimLine(d) == Geom(2, d, 0, << <<1, 2, 3, 4>> >>)
DimPolygon(d) == Geom(3, d, 0, << <<0, 0, 1, 1>> >>)

GeomsDim == { DimPoint(d) : d \in OtherDims } \cup { DimLine(d) : d \in OtherDims }
            \cup { DimPolygon(d) : d \in OtherDims }

\* The GML element of the geometry with the attribute srsDimension="d"
DimXml(g) == [GeomXml(g) EXCEPT !.attrs = <<Attr("srsDimension", to_string(g.dimattr))>>]

RECURSIVE DimSeqs(_)
DimSeqs(n) == IF n = 0 THEN {<<>>} ELSE {<<>>} \cup { <<g>> \o s : g \in GeomsDim, s \in DimSeqs(n - 1) }

DimDoc(geoms) == Doc([i \in 1..Len(geoms) |-> <<Elem(TagG, <<>>, <<DimXml(geoms[i])>>)>>])

InitDims == InitWith({ConfigGml}, { DimDoc(gs) : gs \in DimSeqs(MaxRows) })
SpecDims == InitDims /\ [][Next]_vars

\* The geometry of the j-th row
DimGeom(j) == CHOOSE g \in GeomsDim : Rows[j].kids[1].kids[1] = DimXml(g)

\* The encoding with the flag of a 2D geometry and ring length / dims
\* vertices per ring
DimField(g) ==
    HexEncode(<<1, g.gtype, 0, 0, 32>> \o U32LE(4326)
              \o (IF g.gtype = 3 THEN U32LE(Len(g.rings)) ELSE <<>>)
              \o Concat([r \in 1..Len(g.rings) |->
                            (IF g.gtype # 1 THEN U32LE(Len(g.rings[r]) \div g.dimattr) ELSE <<>>)
                            \o Concat([i \in 1..Len(g.rings[r]) |-> F64LE(g.rings[r][i])])]))

\* No run fails, the encoder returns for every geometry and every row is
\* written when it ends
WarningOnly ==
    /\ fatal = ""
    /\ \A j \in 1..Len(Rows) :
           /\ AfterKid(j, 1) => ~state.gmltoewkb /\ ~state.filtered /\ tabs[MainTable].value[1] # <<>>
           /\ pos = RowEndIndex(j) + 1 => RowsWritten = j
    /\ pos > Len(read_events(xml)) => Done

\* C30: a geometry whose srsDimension is neither 2 nor 3 (any value 0..255,
\* for any geometry type) produces at most a warning: the encoder returns
\* and the run continues with the following events; it is never a fatal
\* error or a crash.
C30_WarningOnly == WarningOnly

\* The same for the documents without a line or polygon of dimension 0, with
\* the field written for each geometry
C30_NonZeroDims ==
    (\A j \in 1..Len(Rows) : DimGeom(j).gtype = 1 \/ DimGeom(j).dimattr # 0) =>
        /\ WarningOnly
        /\ \A j \in 1..Len(Rows) :
               /\ AfterKid(j, 1) /\ DimGeom(j).gtype # 1 => tabs[MainTable].value[1] = DimField(DimGeom(j))
               /\ AfterKid(j, 1) /\ DimGeom(j).gtype = 1 =>
                     tabs[MainTable].value[1] = HexEncode(<<1, 1, 0, 0, 32>> \o U32LE(4326) \o F64LE(1) \o F64LE(2))

\* A line with srsDimension="0": the division of the ring length by dims
\* ends the run
C30_WitnessCrash ==
    /\ xml = DimDoc(<<DimLine(0)>>)
    /\ fatal = "panic in gml_to_ewkb"
    /\ tabs[MainTable].sent = <<>>

\* A polygon with srsDimension="4" and a point with srsDimension="0" are
\* written
C30_WitnessWritten ==
    /\ Done
    /\ fatal = ""
    /\ xml = DimDoc(<<DimPolygon(4), DimPoint(0)>>)
    /\ RowsWritten = 2

(***************************************************************************)
(* C31: bounded channels and shutdown                                      *)
(***************************************************************************)
\* The number of chunks a channel holds (mpsc::sync_channel(100), line 84),
\* scaled down so that the documents fill it
ChannelBound == 2

\* Every name <<ref, k>> a table with a writer thread can have
SinkNames == { <<ref, k>> : ref \in {<<>>, <<2>>, <<2, 2>>}, k \in -1..2 }

\* The chunks of chan beyond the first ChannelBound have not entered the
\* channel: writer_channel.send (lines 104 and 117) has not returned for
\* them, and the main thread waits inside the handler that sends them
Blocked == \E s \in Sinks : Len(Chan(tabs, s).chan) > ChannelBound

\* The main thread takes the next event once every send of the last
\* handler has returned
SendStartEvent == ~Blocked /\ StartEvent
SendTextEvent == ~Blocked /\ TextEvent
SendEndEvent == ~Blocked /\ EndEvent
SendEofEvent == ~Blocked /\ EofEvent

\* main returns and drops the next table after the join of the one before it
\* (line 119)
JoinDropTable == ~Blocked /\ DropTable

\* The writer thread of the table s receives a chunk
WriterOf(s) ==
    /\ fatal = ""
    /\ s \in Sinks
    /\ ~Chan(tabs, s).exited
    /\ Chan(tabs, s).chan # <<>>
    /\ tabs' = SetChan(tabs, s, write_output(Chan(tabs, s)))
    /\ UNCHANGED <<cfg, xml, pos, state, deferred, fatal>>

Writers == \E s \in SinkNames : WriterOf(s)

MainThread == SendStartEvent \/ SendTextEvent \/ SendEndEvent \/ SendEofEvent \/ JoinDropTable

NextBounded == SendStartEvent \/ SendTextEvent \/ SendEndEvent \/ SendEofEvent \/ JoinDropTable \/ Writers

EmitSetsBounded == { {}, EmitKeywords }

InitBounded ==
    \/ InitWith({ WithEmit(ConfigS4, k) : k \in EmitSetsBounded }, {DocS4, DocS5})
    \/ InitWith({ WithEmit(ConfigManyToMany, k) : k \in EmitSetsBounded }, {DocTags})
    \/ InitWith({ WithEmit(ConfigNormSerial, k) : k \in EmitSetsBounded }, {DocCats})
    \/ InitWith({ WithEmit(ConfigVNorm, k) : k \in EmitSetsBounded }, {DocVs})

\* The number of tables main has dropped
DroppedCount == Cardinality({ s \in Sinks : Dropped(Chan(tabs, s)) })

\* The main thread can run: no send is waiting, and there is an event to
\* read or, after Step::Done, a table to drop whose predecessors are joined.
\* This is ENABLED <<MainThread>>_vars: the reader returns one of the four
\* events at every position and the handlers are total
MainCanRun ==
    /\ fatal = ""
    /\ ~Blocked
    /\ \/ Running
       \/ /\ Done
          /\ \E i \in 1..Len(DropOrder(cfg.maintable, <<>>)) :
                 /\ ~Dropped(Chan(tabs, DropOrder(cfg.maintable, <<>>)[i]))
                 /\ \A j \in 1..(i - 1) :
                        /\ Dropped(Chan(tabs, DropOrder(cfg.maintable, <<>>)[j]))
                        /\ Chan(tabs, DropOrder(cfg.maintable, <<>>)[j]).exited

\* The steps of the main thread are those that advance the reader or drop a
\* table
MainStep == pos' # pos \/ DroppedCount' # DroppedCount

\* WF_vars(MainThread), written with MainCanRun for ENABLED <<MainThread>>_vars
MainFair == []<>(~MainCanRun) \/ []<><<MainStep>>_vars

\* Every thread that can run is scheduled
SpecBounded ==
    /\ InitBounded
    /\ [][NextBounded]_vars
    /\ MainFair
    /\ \A s \in SinkNames : WF_vars(WriterOf(s))

\* The same without fairness
SpecBoundedUnfair == InitBounded /\ [][NextBounded]_vars

\* The main thread steps exactly when it can run and only by MainStep
C31_MainSteps == [][(MainStep => MainCanRun) /\ (MainStep <=> MainThread)]_vars

\* C31: with every table's channel bounded, under fair scheduling of the
\* writer threads a producer blocked on a full channel is eventually
\* unblocked, and after Eof every table's writer (main table, subtables and
\* domain tables) receives its sentinel and terminates and every join of the
\* main thread returns: shutdown never deadlocks.
C31_NoDeadlock ==
    /\ Blocked ~> ~Blocked
    /\ (Done /\ fatal = "") ~> Exited

\* The main thread waits on a full channel before the end of the input
C31_WitnessBlocked == Blocked /\ ~Done /\ fatal = ""

\* Every writer has ended and every join has returned, for a table with a
\* domain table and more chunks than a channel holds
C31_WitnessJoined ==
    /\ Exited
    /\ cfg = WithEmit(ConfigVNorm, EmitKeywords)
    /\ Len(tabs[MainTable].sent) > ChannelBound
    /\ tabs[MainTable].coldomain[2].exited

(***************************************************************************)
(* C32: the empty chunk                                                    *)
(***************************************************************************)
\* The places of the empty chunks among the chunks sent to a table
EmptyChunks(c) == { i \in 1..Len(c.sent) : Len(c.sent[i]) = 0 }

\* An empty chunk is the last chunk sent and is sent after Step::Done, a
\* writer that has ended has received every chunk sent and written all of
\* them but the empty one, and when main has returned every table has
\* sent one
SentinelLast ==
    \A s \in Sinks :
        /\ \A i \in EmptyChunks(Chan(tabs, s)) : i = Len(Chan(tabs, s).sent) /\ Done
        /\ Cardinality(EmptyChunks(Chan(tabs, s))) <= 1
        /\ Chan(tabs, s).exited =>
              /\ Cardinality(EmptyChunks(Chan(tabs, s))) = 1
              /\ Chan(tabs, s).chan = <<>>
              /\ Chan(tabs, s).sink = Concat(SelectSeq(Chan(tabs, s).sent, NonEmpty))
        /\ Exited => Cardinality(EmptyChunks(Chan(tabs, s))) = 1

\* C32: the empty-string sentinel is sent on a table's channel exactly
\* once, as the last message at drop time: no flush during the run ever sends
\* an empty chunk, so a writer never stops while chunks for its table are
\* still to be sent.
C32_SentinelLast == SentinelLast

\* Without preamble the items table has sent its two rows and then the
\* empty chunk, and main has returned
C32_Witness ==
    /\ Exited
    /\ cfg = WithEmit(ConfigS4, {})
    /\ xml = DocS4
    /\ tabs[SubRef].sent = << <<"7", "\t", "a", "\n">>, <<"7", "\t", "b", "\n">>, <<>> >>
    /\ tabs[MainTable].sent = << <<"7", "\n">>, <<>> >>

(***************************************************************************)
(* C33: raw separators in a field                                          *)
(***************************************************************************)
\* One column v: element text with trim, an attribute, and the two
\* conversions that copy text
ConfigVTrim == Config("t", RowPath, <<>>, <<[ColV EXCEPT !.trim = TRUE]>>)
ConfigVAttr == Config("t", RowPath, <<>>, <<[ColV EXCEPT !.attr = Some(KeyK)]>>)
ConfigVConcat == Config("t", RowPath, <<>>, <<[ColV EXCEPT !.conv = Some("concat-text")]>>)
ConfigVXmlToText == Config("t", RowPath, <<>>, <<[ColV EXCEPT !.conv = Some("xml-to-text")]>>)

\* <r><row><v k="text"/></row></r> and <r><row><v><b>text</b></v></row></r>
AttrDocs(n) == { Doc(<< <<Elem(TagV, <<Attr(KeyK, t)>>, <<>>)>> >>) : t \in Texts(n) }
InnerDocs(n) == { Doc(<< <<Elem(TagV, <<>>, <<Leaf(TagB, t)>>)>> >>) : t \in Texts(n) }

InitRaw ==
    \/ InitWith({ConfigV, ConfigVTrim, ConfigVConcat}, TextDocs(MaxText))
    \/ InitWith({ConfigVAttr}, AttrDocs(MaxText))
    \/ InitWith({ConfigVXmlToText}, InnerDocs(MaxText))
SpecRaw == InitRaw /\ [][Next]_vars

\* No raw TAB, LF or CR, and every backslash starts one of the escapes
\* \\, \t, \r, \n (or the field is the NULL literal \N)
RECURSIVE Escaped(_)
Escaped(field) ==
    IF field = <<>> THEN TRUE
    ELSE IF Head(field) \in {"\t", "\n", "\r"} THEN FALSE
    ELSE IF Head(field) = "\\"
         THEN Len(field) >= 2 /\ field[2] \in {"\\", "t", "r", "n"} /\ Escaped(SubSeq(field, 3, Len(field)))
         ELSE Escaped(Tail(field))

\* Every line written for the one column is a field without raw separator
\* and the line feed that ends it
FieldsEscaped ==
    \A i \in 1..Len(tabs[MainTable].sent) :
        LET line == tabs[MainTable].sent[i]
        IN  /\ Last(line) = "\n"
            /\ (Pop(line) = Null \/ Escaped(Pop(line)))

\* C33: no field of any emitted data row contains a raw TAB, LF or CR
\* character or an unescaped backslash, whatever the content source of the
\* column: element text with or without trim, an attribute value, or an
\* xml-to-text or concat-text conversion; every line therefore splits on TAB
\* into exactly the fields that were written.
C33_FieldsEscaped == FieldsEscaped

\* The same for the element text of a column without trim
C33_ElementText == cfg = ConfigV => FieldsEscaped

\* k="n<TAB>n" is written with the raw TAB
C33_WitnessAttr ==
    /\ Done
    /\ cfg = ConfigVAttr
    /\ tabs[MainTable].sent = << <<"n", "\t", "n", "\n">> >>

\* With trim the text n<CR>n is written with the raw CR
C33_WitnessTrim ==
    /\ Done
    /\ cfg = ConfigVTrim
    /\ tabs[MainTable].sent = << <<"n", "\r", "n", "\n">> >>

\* concat-text writes the text n\n with the single backslash
C33_WitnessConcat ==
    /\ Done
    /\ cfg = ConfigVConcat
    /\ tabs[MainTable].sent = << <<"n", "\\", "n", "\n">> >>

\* xml-to-text writes a raw line feed between the tags
C33_WitnessXmlToText ==
    /\ Done
    /\ cfg = ConfigVXmlToText
    /\ Rows[1].kids[1].kids[1].kids[1].text = <<"n", "\n", "n">>
    /\ Len(tabs[MainTable].sent) = 1
    /\ \E i \in 1..(Len(tabs[MainTable].sent[1]) - 1) : tabs[MainTable].sent[1][i] = "\n"

\* Without trim the element text n<CR>n is written as n\rn
C33_WitnessEscaped ==
    /\ Done
    /\ cfg = ConfigV
    /\ tabs[MainTable].sent = << <<"n", "\\", "r", "n", "\n">> >>

(***************************************************************************)
(* C34: the key of a normalized subtable with a serial first column        *)
(***************************************************************************)
TagKind == <<"k", "i", "n", "d">>
ColKind == [YCol EXCEPT !.name = "kind", !.path = Some(PathOf(<<TagKind>>))]

\* {name: cat, path: /cat, norm: cats.tsv, cols: [{name: id, seri: true},
\* {name: name, path: /name}, {name: kind, path: /kind}]}, and the same with
\* file: link.tsv
ConfigPairNorm == Config("t", RowPath, <<>>, <<ColId, ColCat(<<ColSerial, ColName, ColKind>>)>>)
ConfigPairLink ==
    Config("t", RowPath, <<>>,
           <<ColId, [ColCat(<<ColSerial, ColName, ColKind>>) EXCEPT !.file = Some("link.tsv")]>>)

\* <cat><name>..</name><kind>..</kind></cat>
CatPair(name, kind) == Elem(TagCat, <<>>, <<Leaf(TagName, name), Leaf(TagKind, kind)>>)

KidsPairs == { CatPair(name, kind) : name \in {<<"a">>, <<"a", "b">>}, kind \in {<<"c">>, <<"b", "c">>} }

\* One row: <id>7</id> and up to MaxElems cats
PairDocs == { Doc(<< <<Leaf(TagId, <<"7">>)>> \o cats >>) : cats \in KidSeqs(KidsPairs, MaxElems) }

InitPairs == InitWith({ConfigPairNorm, ConfigPairLink}, PairDocs)
SpecPairs == InitPairs /\ [][Next]_vars

\* The tuple of the values of the columns after the serial column
TupleOf(cat) == <<cat.kids[1].kids[1].text, cat.kids[2].kids[1].text>>

\* The tuples of the child rows of the document
TuplesOfDoc == { TupleOf(Rows[1].kids[n]) : n \in 2..Len(Rows[1].kids) }

\* The rows written to the lookup table cats.tsv: by the subtable itself
\* when it is ManyToOne, by the table of its domain when it is ManyToMany
PairLookupRows == IF cfg = ConfigPairNorm THEN tabs[SubRef].sent ELSE tabs[SubRef].domain.sent

\* When the run is over, the domain of the subtable has handed out one id
\* per tuple and written one lookup row per tuple
OneIdPerTuple ==
    Done /\ fatal = "" =>
        /\ tabs[SubRef].domain.lastid = Cardinality(TuplesOfDoc)
        /\ Cardinality({ e.id : e \in tabs[SubRef].domain.map }) = Cardinality(TuplesOfDoc)
        /\ Len(PairLookupRows) = Cardinality(TuplesOfDoc)

\* C34: two child rows of a normalized subtable with a serial first column
\* whose tuples of remaining column values differ never receive the same
\* domain id: distinct value tuples are distinct keys.
C34_DistinctTuples == OneIdPerTuple

\* The same for the documents in which no two tuples have the same
\* concatenation
C34_DistinctConcatenations ==
    (\A t, u \in TuplesOfDoc : t[1] \o t[2] = u[1] \o u[2] => t = u) => OneIdPerTuple

\* (a, bc) and (ab, c): one key abc, one id and one lookup row
C34_WitnessCollision ==
    /\ Done
    /\ fatal = ""
    /\ cfg = ConfigPairNorm
    /\ xml = Doc(<< <<Leaf(TagId, <<"7">>), CatPair(<<"a">>, <<"b", "c">>), CatPair(<<"a", "b">>, <<"c">>)>> >>)
    /\ tabs[SubRef].domain.map = {[key |-> <<"a", "b", "c">>, id |-> 1]}
    /\ PairLookupRows = << <<"1", "\t", "a", "\t", "b", "c", "\n">> >>

\* (a, c) and (ab, bc): two ids
C34_WitnessTwoIds ==
    /\ Done
    /\ fatal = ""
    /\ cfg = ConfigPairLink
    /\ xml = Doc(<< <<Leaf(TagId, <<"7">>), CatPair(<<"a">>, <<"c">>), CatPair(<<"a", "b">>, <<"b", "c">>)>> >>)
    /\ tabs[SubRef].domain.lastid = 2

(***************************************************************************)
(* C35: the ids of a link table                                            *)
(***************************************************************************)
\* {name: tag, path: /tag, file: link.tsv, norm: tags.tsv} with cols
\* [v, u] and with cols [{name: id, seri: true}, {name: name, path: /name}]
ConfigLinkPlain == Config("t", RowPath, <<>>, <<ColId, [ColTagManyToMany EXCEPT !.cols = Some(<<ColV, ColU>>)]>>)
ConfigLinkSerial ==
    Config("t", RowPath, <<>>, <<ColId, [ColTagManyToMany EXCEPT !.cols = Some(<<ColSerial, ColName>>)]>>)

\* <tag><name>..</name></tag>
TagNamed(name) == Elem(TagTag, <<>>, <<Leaf(TagName, name)>>)
KidsLinkSerial == {Leaf(TagId, <<"7">>), TagNamed(<<"A">>), TagNamed(<<"B">>)}

InitLink ==
    \/ InitWith({ConfigManyToMany}, Docs(KidsTags, MaxRows, MaxElems))
    \/ InitWith({ConfigLinkPlain}, Docs(KidsLinkNorm, MaxRows, MaxElems))
    \/ InitWith({ConfigLinkSerial}, Docs(KidsLinkSerial, MaxRows, MaxElems))
SpecLink == InitLink /\ [][Next]_vars

\* The fields of a line
FieldsOf(line) == Split(Pop(line), "\t")

\* The lookup rows whose first field is the id
LookupRowsOf(id) ==
    { k \in 1..Len(tabs[SubRef].domain.sent) : FieldsOf(tabs[SubRef].domain.sent[k])[1] = id }

\* The second field of every row of the link table is the id of exactly
\* one row of the lookup table
LinkIdsResolve ==
    fatal = "" =>
        \A i \in 1..Len(tabs[SubRef].sent) :
            /\ Len(FieldsOf(tabs[SubRef].sent[i])) = 2
            /\ Cardinality(LookupRowsOf(FieldsOf(tabs[SubRef].sent[i])[2])) = 1

\* C35: for a ManyToMany subtable, every id written as the second field of
\* a link-table row is the id of exactly one row emitted to the domain's
\* lookup table, for any sequence of child rows including repeated keys and
\* for subtables with a serial first column.
C35_LinkIdsResolve == LinkIdsResolve

\* The same for the subtables without a serial column
C35_NoSerial == cfg # ConfigLinkSerial => LinkIdsResolve

\* The name A twice under the serial column: the link rows 7<TAB>1 and
\* 7<TAB>2, the only lookup row 1<TAB>A
C35_WitnessDangling ==
    /\ Done
    /\ fatal = ""
    /\ cfg = ConfigLinkSerial
    /\ tabs[SubRef].sent = << <<"7", "\t", "1", "\n">>, <<"7", "\t", "2", "\n">> >>
    /\ tabs[SubRef].domain.sent = << <<"1", "\t", "A", "\n">> >>

\* The tag a twice in the single-column subtable: both link rows carry the
\* id 1 of the lookup row 1<TAB>a
C35_WitnessRepeated ==
    /\ Done
    /\ fatal = ""
    /\ cfg = ConfigManyToMany
    /\ tabs[SubRef].sent = << <<"7", "\t", "1", "\n">>, <<"7", "\t", "1", "\n">> >>
    /\ tabs[SubRef].domain.sent = << <<"1", "\t", "a", "\n">> >>

(***************************************************************************)
(* C36: the passes of the repeat loop                                      *)
(***************************************************************************)
\* The main table alone, one subtable, a subtable inside a subtable, and the
\* documents that defer and replay events or end in a fatal error.
\* A subtable inside the subtable item with the path of item itself:
\* {name: inner, path: "", file: inner.tsv, cols: [{name: tag, path: /tag}]}
ColInner == [YCol EXCEPT !.name = "inner", !.path = Some(<<>>), !.file = Some("inner.tsv"), !.cols = Some(<<ColTag(None, None)>>)]
ConfigSamePath == Config("t", RowPath, <<>>, <<ColId, [ColItem EXCEPT !.cols = Some(<<ColV, ColInner>>)]>>)

\* The documents of one row of at most MaxElems of the children
DocsOneRow(kids) == { Doc(<<row>>) : row \in KidSeqs(kids, MaxElems) }

InitRepeat ==
    \/ InitWith({ConfigS1, ConfigS4, ConfigNested, ConfigSamePath}, DocsOneRow(KidsNested))
    \/ InitWith({ConfigNorm}, DocsOneRow(KidsCat))

\* The reader returns the next event: the step every pass of the main loop
\* takes, line 570
ReaderStep == Running /\ pos' = pos + 1

\* The main thread is the only thread of the loop and runs whenever it can
SpecRepeat == InitRepeat /\ [][Next]_vars /\ WF_pos(ReaderStep)
SpecRepeatUnfair == InitRepeat /\ [][Next]_vars

\* The depth of the tree of tables: 0 for a main table without subtables
TableDepth ==
    CHOOSE d \in { Len(r) : r \in TableRefs(cfg.maintable) } :
        \A r \in TableRefs(cfg.maintable) : Len(r) <= d

\* The state in which the replay starts, lines 589-592
ApplyStart(w) ==
    [w EXCEPT !.st.step = "Repeat", !.st.path = Unwrap(w.st.deferred), !.st.deferred = None, !.deferred = <<>>]

Both(a, b) == [max |-> IF a.max >= b.max THEN a.max ELSE b.max, moved |-> a.moved /\ b.moved]

\* The calls of process_event in the loops of lines 571-614, counted per
\* event: max is the largest number of passes one event takes, n the passes
\* the current event has taken, and moved says that every Step::Repeat came
\* with a changed stack of tables. ReplayPasses follows the loop of lines
\* 594-606, RepeatPasses the loop of lines 571-614.
RECURSIVE ReplayPasses(_, _, _, _)
ReplayPasses(w, events, n, moved) ==
    LET w1 == process_event(Head(events), w)
        here == [max |-> n + 1, moved |-> moved]
    IN  IF w1.fatal # "" THEN here
        ELSE IF w1.st.step = "Repeat"
        THEN ReplayPasses(w1, events, n + 1, moved /\ w1.st.tables # w.st.tables)
        ELSE IF w1.st.step = "Defer" \/ w1.st.step = "Done" \/ Tail(events) = <<>> THEN here
        ELSE Both(here, ReplayPasses(w1, Tail(events), 0, TRUE))

RECURSIVE RepeatPasses(_, _, _, _)
RepeatPasses(w, event, n, moved) ==
    LET w1 == process_event(event, w)
        here == [max |-> n + 1, moved |-> moved]
    IN  IF w1.fatal # "" THEN here
        ELSE IF w1.st.step = "Repeat"
        THEN RepeatPasses(w1, event, n + 1, moved /\ w1.st.tables # w.st.tables)
        ELSE IF w1.st.step = "Apply" /\ w1.tb[w1.st.table].lastid # <<>>
        THEN Both(here, ReplayPasses(ApplyStart(w1), w1.deferred, 0, TRUE))
        ELSE here

\* The passes of the event the reader returns next
PassesNext == RepeatPasses(World, Event, 0, TRUE)

\* Every event takes at most depth + 1 passes, and every Step::Repeat
\* follows a push or a pop of state.tables
PassesBounded == Running => PassesNext.max <= TableDepth + 1 /\ PassesNext.moved

\* C36 as stated: every XML event is processed a bounded number of times:
\* each Repeat follows a push or a pop of the table stack, so the repeat
\* loop for one event ends after at most (depth of the table tree + 1)
\* passes, and every finite event stream ending in Eof reaches Done.
C36_ReachesDone == []PassesBounded /\ <>Done

\* C36: every event takes at most (depth of the table tree + 1) passes of
\* the repeat loop, each Repeat follows a push or a pop of the table stack,
\* and every finite event stream ending in Eof reaches Done or ends in a
\* fatal error.
C36_Terminates == []PassesBounded /\ <>(Done \/ fatal # "")

\* The Start of an item takes three passes when a subtable inside the
\* subtable item has the path of item: the main table, item and inner
C36_WitnessThreePasses ==
    /\ Running
    /\ cfg = ConfigSamePath
    /\ Event.type = "Start"
    /\ TableDepth = 2
    /\ PassesNext.max = 3
    /\ RepeatLoop(World, Event).fatal = ""

\* An End that replays the deferred events, each of them in at most two
\* passes
C36_WitnessReplay ==
    /\ Running
    /\ cfg = ConfigS4
    /\ deferred # <<>>
    /\ RepeatLoop(World, Event).deferred = <<>>
    /\ RepeatLoop(World, Event).fatal = ""
    /\ PassesNext.max = 2

\* The stream has ended in a fatal error before Eof
C36_WitnessFatal == fatal # "" /\ ~Done /\ pos <= Len(read_events(xml))

\* The stream has reached Done
C36_WitnessDone == Done /\ fatal = "" /\ cfg = ConfigNested /\ tabs[TagRef].sent # <<>>


====
